---- MODULE Spec2Model ----
(***************************************************************************)
(* A model of the Ralph optimizer (src/ralph_optimizer.py): the three log  *)
(* tiers read by LogParser, the pricing of CostAnalyzer, the heuristics of *)
(* PatternDetector, and main with the values the Reporter prints; and the  *)
(* helpers of the Ralph loop (src/ralph.py): the retry backoff, the sleep  *)
(* through a rate limit, the scan of the output of claude and the fetch of *)
(* feedback.                                                               *)
(*                                                                         *)
(* Text that the code slices, strips or rewrites character by character    *)
(* (working directories, result messages, raw log lines, shell commands)   *)
(* is a tuple of one-character strings; identifiers the code only compares *)
(* or copies (session ids, timestamps, tool names) are strings.            *)
(***************************************************************************)
EXTENDS Integers, Sequences, FiniteSets, TLC

VARIABLES
    pc,                  \* which call is running, and where it is
    parses,              \* number of parse_ralph_log calls made on the parser
    entry_dir,           \* self.runtime_dir on entry to the running parse_ralph_log
    log,                 \* the lines of the orchestrator log read so far
    iterations,          \* parse_ralph_log: iterations
    current_session_id,  \* parse_ralph_log: current_session_id
    current_timestamp,   \* parse_ralph_log: current_timestamp
    current_number,      \* parse_ralph_log: current_number
    current_total,       \* parse_ralph_log: current_total
    runtime_dir,         \* LogParser.runtime_dir
    fs,                  \* the files under CLAUDE_PROJECTS_DIR / runtime_dir
    session_id,          \* parse_session: the session_id it is called with
    transcript,          \* the lines of the session transcript read so far
    session,             \* parse_session: session
    tool_index,          \* parse_session: tool_index
    agent_files,         \* parse_session: the agent files still to parse
    atranscripts,        \* the lines read so far of each agent file opened
    agent,               \* _parse_agent_file: agent
    agent_tool_index,    \* _parse_agent_file: tool_index
    findings,            \* the value returned by the detector that ran
    args,                \* main: the parsed command line
    disk,                \* the log files and session directories main can find
    log_path,            \* main: log_path
    it_index,            \* main: iterations the loop over iterations has taken
    sessions,            \* main: sessions
    costs,               \* main: costs
    patterns,            \* main: patterns
    detect_calls,        \* number of detect_all_patterns calls made
    stdout,              \* what the process has printed on standard output
    stderr,              \* what the process has printed on standard error
    exit_code,           \* the exit status of the process, -1 while it runs
    attempt,             \* calculate_backoff: attempt
    backoff,             \* the value calculate_backoff returned
    claude_output,       \* process_claude_output: lines
    verbose,             \* process_claude_output: verbose
    line_index,          \* lines of the output that the loop has taken
    result_line,         \* process_claude_output: result_line
    session_id_printed,  \* process_claude_output: session_id_printed
    raised,              \* an exception has left process_claude_output
    console,             \* what ralph.py has printed
    ralph_log,           \* log_file: whether one is given, and its lines
    hour,                \* calculate_sleep_seconds: hour
    ampm,                \* calculate_sleep_seconds: ampm
    reset_tz,            \* calculate_sleep_seconds: reset_tz
    now,                 \* calculate_sleep_seconds: now
    sleep_secs,          \* the value calculate_sleep_seconds returned
    script,              \* fetch_feedback: what becomes of the script
    msg,                 \* log: msg, of the call of log about to be made
    newline_before,      \* log: newline_before, of that call
    log_calls,           \* number of calls of log made on their own
    loop_i,              \* main: i of the for over range(max_iterations)
    max_iterations,      \* main: max_iterations
    stop_marker,         \* whether the file STOP_RALPH exists
    prompt_file,         \* whether the file RALPH.md exists
    clock,               \* time.time(), in whole seconds
    retry_start,         \* main: retry_start
    last_line,           \* main: last_line, or retry_last_line
    effects              \* the runs of claude and the sleeps made so far

logVars == <<parses, entry_dir, log, iterations, current_session_id,
             current_timestamp, current_number, current_total>>
sessVars == <<fs, session_id, transcript, session, tool_index, agent_files,
              atranscripts, agent, agent_tool_index>>
mainVars == <<args, disk, log_path, it_index, sessions, costs, patterns,
              detect_calls, stdout, stderr, exit_code>>
outputVars == <<claude_output, verbose, line_index, result_line,
                session_id_printed, raised>>
logCallVars == <<msg, newline_before, log_calls>>
loopVars == <<loop_i, max_iterations, stop_marker, prompt_file, clock, retry_start,
              last_line, effects>>
ralphVars == <<attempt, backoff, outputVars, console, ralph_log, hour, ampm,
               reset_tz, now, sleep_secs, script, logCallVars, loopVars>>
vars == <<pc, logVars, runtime_dir, sessVars, findings, mainVars, ralphVars>>

----------------------------------------------------------------------------
(* Bounds of the model *)

MaxLines == 3     \* lines read by one call (over all the files it opens)
MaxParses == 2    \* parse_ralph_log calls on one parser
MaxAgentLines == 2   \* lines read from the agent files of one session
MaxReadCalls == 5    \* calls of a session given to find_redundant_reads
MaxTestCalls == 7    \* calls of a session given to find_late_test_runs
MaxLargeReads == 5   \* calls of a session given to find_large_file_reads
MaxAgentTurns == 2   \* lines of an agent file of a session given to find_agent_overhead
MaxCostTurns == 2    \* lines of each file of a session given to estimate_cost
MaxCostCalls == 2    \* estimate_cost calls made on one analyzer
MaxSessions == 2     \* sessions of a batch given to detect_all_patterns
MaxLogLines == 3     \* lines of the log main analyses
MaxLast == 2         \* the value of --last
MaxAttempt == 6      \* the attempt calculate_backoff is asked about
MaxOutputLines == 3  \* lines of the output of claude
MaxLogCalls == 2     \* calls of log made on one log file
MaxIterations == 2   \* the largest max_iterations
RunSeconds == 14400  \* how long one run of claude takes
StartClock == 97200  \* the clock when main starts

----------------------------------------------------------------------------
(* Python values *)

\* Python's None among texts: a text is a tuple of one-character strings, so
\* no text equals it
None == <<"None">>

\* Python's None among identifiers (a missing key, a JSON null)
Null == "None"

\* dict.get(key, default)
Get(d, k, default) == IF k \in DOMAIN d THEN d[k] ELSE default

\* str.startswith(prefix)
StartsWith(t, p) == Len(t) >= Len(p) /\ SubSeq(t, 1, Len(p)) = p

Whitespace == {" ", "\t", "\n"}

RECURSIVE LStrip(_)
LStrip(t) == IF t # <<>> /\ Head(t) \in Whitespace THEN LStrip(Tail(t)) ELSE t

RECURSIVE RStrip(_)
RStrip(t) ==
    IF t # <<>> /\ t[Len(t)] \in Whitespace
    THEN RStrip(SubSeq(t, 1, Len(t) - 1))
    ELSE t

\* str.strip()
Strip(t) == RStrip(LStrip(t))

\* s[n:] for a 0-based n
SliceFrom(t, n) == SubSeq(t, n + 1, Len(t))

\* str.replace(old, new) for one-character old and new
Replace(t, old, new) == [i \in 1..Len(t) |-> IF t[i] = old THEN new ELSE t[i]]

----------------------------------------------------------------------------
(* Tier 1: the orchestrator log *)

\* "Result:" and its length, the 7 of line[7:]
ResultPrefix == <<"R", "e", "s", "u", "l", "t", ":">>
ResultPrefixLen == 7

\* LogParser._cwd_to_runtime_dir
CwdToRuntimeDir(cwd) == Replace(Replace(cwd, "/", "-"), "_", "-")

\* Iteration(number, total, session_id, timestamp)
Iteration(n, t, sid, ts) ==
    [number |-> n, total |-> t, session_id |-> sid, timestamp |-> ts,
     is_error |-> FALSE, result |-> <<>>]

\* The lines a log can hold.  A line is what the loop body makes of it:
\*   header   iter_pattern matched, with its three groups
\*   raw      text that does not start with "{"
\*   json     text that starts with "{" and that json.loads accepts
\*   badjson  text that starts with "{" and makes json.loads raise
HeaderLines ==
    {[kind |-> "header", number |-> 1, total |-> 2, timestamp |-> "mon"],
     [kind |-> "header", number |-> 2, total |-> 2, timestamp |-> "tue"]}

SessionIds == {"s1", "s2"}

Cwds == {<<"/", "a", "_", "b">>, <<"/", "c">>}

InitLines ==
    {[kind |-> "json",
      data |-> [type |-> "system", subtype |-> "init", session_id |-> s, cwd |-> c]] :
        s \in SessionIds, c \in Cwds}
    \cup {[kind |-> "json",
           data |-> [type |-> "system", subtype |-> "init", session_id |-> "s1",
                     cwd |-> <<>>]],
          [kind |-> "json", data |-> [type |-> "system", subtype |-> "init"]]}

ResultRecordLines ==
    {[kind |-> "json",
      data |-> [type |-> "result", is_error |-> TRUE, result |-> <<"b", "o", "o", "m">>]],
     [kind |-> "json",
      data |-> [type |-> "result", is_error |-> FALSE, result |-> <<"o", "k">>]],
     [kind |-> "json", data |-> [type |-> "result", result |-> <<"o", "k">>]]}

OtherRecordLines ==
    {[kind |-> "json", data |-> [type |-> "assistant"]]}

ResultTextLines ==
    {[kind |-> "raw", text |-> ResultPrefix \o <<" ", "o", "k", " ">>]}

NoiseLines ==
    {[kind |-> "raw", text |-> <<"h", "i">>]}

BadJsonLines == {[kind |-> "badjson"]}

LogLines ==
    HeaderLines \cup InitLines \cup ResultRecordLines \cup OtherRecordLines
    \cup ResultTextLines \cup NoiseLines \cup BadJsonLines

IsInitRecord(data) ==
    Get(data, "type", Null) = "system" /\ Get(data, "subtype", Null) = "init"

IsErrorResult_IgnoresFlag(data) ==
    Get(data, "type", Null) = "result"

IsErrorResult(data) ==
    Get(data, "type", Null) = "result" /\ Get(data, "is_error", FALSE)

\* The locals and the parser field that the loop of parse_ralph_log updates
LogState(its, sid, ts, n, t, rd) ==
    [iterations |-> its, current_session_id |-> sid, current_timestamp |-> ts,
     current_number |-> n, current_total |-> t, runtime_dir |-> rd]

\* The state on entry to the loop
LogEntry(rd) == LogState(<<>>, "", "", 0, 0, rd)

SetLast(its, field, value) == [its EXCEPT ![Len(its)][field] = value]

\* The iteration header branch
OnHeader(st, line) ==
    [st EXCEPT !.current_number = line.number,
               !.current_total = line.total,
               !.current_timestamp = line.timestamp,
               !.current_session_id = ""]

OnRawLine_ClearsError(st, line) ==
    IF StartsWith(line.text, ResultPrefix) /\ st.iterations # <<>>
    THEN [st EXCEPT !.iterations =
            SetLast(SetLast(st.iterations, "is_error", FALSE), "result",
                    Strip(SliceFrom(line.text, ResultPrefixLen)))]
    ELSE st

\* The branch of a line that does not start with "{"
OnRawLine(st, line) ==
    IF StartsWith(line.text, ResultPrefix) /\ st.iterations # <<>>
    THEN [st EXCEPT !.iterations =
            SetLast(st.iterations, "result",
                    Strip(SliceFrom(line.text, ResultPrefixLen)))]
    ELSE st

CacheRuntimeDir_Always(rd, data) ==
    LET cwd == Get(data, "cwd", <<>>)
    IN IF cwd # <<>> THEN CwdToRuntimeDir(cwd) ELSE rd

\* "Capture cwd for runtime directory (use first one found)"
CacheRuntimeDir(rd, data) ==
    IF rd = None
    THEN LET cwd == Get(data, "cwd", <<>>)
         IN IF cwd # <<>> THEN CwdToRuntimeDir(cwd) ELSE rd
    ELSE rd

OnInitRecord_DropEmptySession(st, data) ==
    IF IsInitRecord(data)
    THEN LET sid == Get(data, "session_id", "")
         IN [st EXCEPT
               !.current_session_id = sid,
               !.runtime_dir = CacheRuntimeDir(st.runtime_dir, data),
               !.iterations =
                   IF sid = "" THEN @
                   ELSE Append(@, Iteration(st.current_number, st.current_total,
                                            sid, st.current_timestamp))]
    ELSE st

\* "Extract session_id and cwd from init message"
OnInitRecord(st, data) ==
    IF IsInitRecord(data)
    THEN LET sid == Get(data, "session_id", "")
         IN [st EXCEPT
               !.current_session_id = sid,
               !.runtime_dir = CacheRuntimeDir(st.runtime_dir, data),
               !.iterations =
                   Append(@, Iteration(st.current_number, st.current_total,
                                       sid, st.current_timestamp))]
    ELSE st

OnResultRecord_MarkAll(st, data) ==
    IF IsErrorResult(data) /\ st.iterations # <<>>
    THEN [st EXCEPT !.iterations =
            [i \in 1..Len(@) |->
                [@[i] EXCEPT !.is_error = TRUE,
                             !.result = Get(data, "result", <<>>)]]]
    ELSE st

\* "Check for error result"
OnResultRecord(st, data) ==
    IF IsErrorResult(data) /\ st.iterations # <<>>
    THEN [st EXCEPT !.iterations =
            SetLast(SetLast(@, "is_error", TRUE),
                    "result", Get(data, "result", <<>>))]
    ELSE st

LogStep_BadJsonResets(st, line) ==
    IF line.kind = "header" THEN OnHeader(st, line)
    ELSE IF line.kind = "raw" THEN OnRawLine(st, line)
    ELSE IF line.kind = "badjson" THEN [st EXCEPT !.current_number = 0]
    ELSE OnResultRecord(OnInitRecord(st, line.data), line.data)

\* The body of the loop over the lines of the log
LogStep(st, line) ==
    IF line.kind = "header" THEN OnHeader(st, line)
    ELSE IF line.kind = "raw" THEN OnRawLine(st, line)
    ELSE IF line.kind = "badjson" THEN st
    ELSE OnResultRecord(OnInitRecord(st, line.data), line.data)

\* parse_ralph_log on a whole file, from the state st
RECURSIVE ParseRalphLog(_, _)
ParseRalphLog(st, lines) ==
    IF lines = <<>> THEN st
    ELSE ParseRalphLog(LogStep(st, Head(lines)), Tail(lines))

CurrentLogState ==
    LogState(iterations, current_session_id, current_timestamp,
             current_number, current_total, runtime_dir)

\* One turn of the loop: the next line of the file is line
ReadLogLine(line) ==
    /\ pc = "log"
    /\ Len(log) < MaxLines
    /\ log' = Append(log, line)
    /\ LET st == LogStep(CurrentLogState, line)
       IN /\ iterations' = st.iterations
          /\ current_session_id' = st.current_session_id
          /\ current_timestamp' = st.current_timestamp
          /\ current_number' = st.current_number
          /\ current_total' = st.current_total
          /\ runtime_dir' = st.runtime_dir
    /\ UNCHANGED <<ralphVars, mainVars, pc, parses, entry_dir, sessVars, findings>>

\* parse_ralph_log is called: the locals are initialised and the file opened
BeginParseRalphLog ==
    /\ pc = "idle"
    /\ parses < MaxParses
    /\ pc' = "log"
    /\ parses' = parses + 1
    /\ entry_dir' = runtime_dir
    /\ log' = <<>>
    /\ iterations' = <<>>
    /\ current_session_id' = ""
    /\ current_timestamp' = ""
    /\ current_number' = 0
    /\ current_total' = 0
    /\ UNCHANGED <<ralphVars, mainVars, runtime_dir, sessVars, findings>>

ReadHeader == \E line \in HeaderLines : ReadLogLine(line)
ReadInitRecord == \E line \in InitLines : ReadLogLine(line)
ReadResultRecord == \E line \in ResultRecordLines : ReadLogLine(line)
ReadOtherRecord == \E line \in OtherRecordLines : ReadLogLine(line)
ReadResultText == \E line \in ResultTextLines : ReadLogLine(line)
ReadMalformed == \E line \in NoiseLines \cup BadJsonLines : ReadLogLine(line)

\* The file ends and parse_ralph_log returns iterations
EndParseRalphLog ==
    /\ pc = "log"
    /\ pc' = "idle"
    /\ UNCHANGED <<ralphVars, mainVars, logVars, runtime_dir, sessVars, findings>>

----------------------------------------------------------------------------
(* Tier 2 and tier 3: the session transcript and the agent sub-transcripts *)

\* ToolCall(name, input, output_tokens, index)
ToolCall(name, input, output_tokens, index) ==
    [name |-> name, input |-> input, output_tokens |-> output_tokens,
     index |-> index]

\* AgentSession(agent_id, agent_type)
AgentSession(agent_id, agent_type) ==
    [agent_id |-> agent_id, agent_type |-> agent_type, tool_calls |-> <<>>,
     total_input_tokens |-> 0, total_output_tokens |-> 0]

\* Session(session_id)
EmptySession(sid) ==
    [session_id |-> sid, tool_calls |-> <<>>, total_input_tokens |-> 0,
     total_output_tokens |-> 0, agents |-> <<>>]

FullUsage ==
    [input_tokens |-> 1, cache_creation_input_tokens |-> 2,
     cache_read_input_tokens |-> 4, output_tokens |-> 8]

PartialUsage == [input_tokens |-> 16, output_tokens |-> 32]

ToolUse(name, input) == [type |-> "tool_use", name |-> name, input |-> input]

TextBlock == [type |-> "text"]

BashLs == [command |-> <<"l", "s">>]

\* The assistant records a transcript can hold: a top-level turn with one
\* call, a nested turn with two calls after a text block, a top-level turn
\* whose parent id is null and whose usage lacks the cache counters, and a
\* record with no message at all.
AssistantLines ==
    {[kind |-> "json",
      data |-> [type |-> "assistant",
                message |-> [usage |-> FullUsage,
                             content |-> <<ToolUse("Read", [file_path |-> "a"])>>]]],
     [kind |-> "json",
      data |-> [type |-> "assistant",
                parent_tool_use_id |-> "toolu_1",
                message |-> [usage |-> FullUsage,
                             content |-> <<TextBlock,
                                           ToolUse("Edit", [file_path |-> "a"]),
                                           ToolUse("Bash", BashLs)>>]]],
     [kind |-> "json",
      data |-> [type |-> "assistant",
                parent_tool_use_id |-> Null,
                message |-> [usage |-> PartialUsage,
                             content |-> <<ToolUse("Read", [file_path |-> "b"])>>]]],
     [kind |-> "json", data |-> [type |-> "assistant"]]}

\* A record of another type that carries usage counters and a tool_use block
UserLines ==
    {[kind |-> "json",
      data |-> [type |-> "user",
                message |-> [usage |-> FullUsage,
                             content |-> <<ToolUse("Read", [file_path |-> "a"])>>]]]}

Haiku == <<"h", "a", "i", "k", "u">>
Sonnet == <<"s", "o", "n", "n", "e", "t">>
Opus == <<"o", "p", "u", "s">>

\* Initialization records of an agent file: a cheap-tier model, a model
\* string that holds two tier identifiers, and a model of no known tier
AgentInitLines ==
    {[kind |-> "json",
      data |-> [type |-> "system", subtype |-> "init", model |-> m]] :
        m \in {<<"c", "-">> \o Haiku \o <<"-", "4">>,
               Opus \o <<"/">> \o Sonnet,
               <<"g", "p", "t">>}}

MalformedLines == NoiseLines \cup BadJsonLines

SessionLines == AssistantLines \cup UserLines \cup MalformedLines

AgentLines == AssistantLines \cup UserLines \cup AgentInitLines \cup MalformedLines

\* p in t, for texts
Contains(t, p) ==
    \E i \in 0..(Len(t) - Len(p)) : SubSeq(t, i + 1, i + Len(p)) = p

\* msg.get("usage", {}) of data.get("message", {})
UsageOf(data) == Get(Get(data, "message", <<>>), "usage", <<>>)

\* msg.get("content", []) of data.get("message", {})
ContentOf(data) == Get(Get(data, "message", <<>>), "content", <<>>)

InputTotal_NoCacheRead(usage) ==
    Get(usage, "input_tokens", 0) + Get(usage, "cache_creation_input_tokens", 0)

\* input_tokens + cache_creation + cache_read
InputTotal(usage) ==
    Get(usage, "input_tokens", 0)
    + Get(usage, "cache_creation_input_tokens", 0)
    + Get(usage, "cache_read_input_tokens", 0)

OutputTotal(usage) == Get(usage, "output_tokens", 0)

IsToolUse(item) == Get(item, "type", Null) = "tool_use"

\* The ToolCall built from a tool_use block
ToolCallOf(item, output_tokens, index) ==
    ToolCall(Get(item, "name", ""), Get(item, "input", <<>>), output_tokens, index)

\* The state the loop of parse_session updates
SessState(s, ti) == [session |-> s, tool_index |-> ti]

RECURSIVE ExtractToolCalls_CountVisibleOnly(_, _, _)
ExtractToolCalls_CountVisibleOnly(st, data, content) ==
    IF content = <<>> THEN st
    ELSE LET item == Head(content)
             visible == Get(data, "parent_tool_use_id", Null) = Null
             tc == ToolCallOf(item, OutputTotal(UsageOf(data)), st.tool_index)
         IN ExtractToolCalls_CountVisibleOnly(
                IF IsToolUse(item) /\ visible
                THEN SessState([st.session EXCEPT !.tool_calls = Append(@, tc)],
                               st.tool_index + 1)
                ELSE st,
                data, Tail(content))

\* "Extract tool calls": the loop over the content blocks of one turn
RECURSIVE ExtractToolCalls(_, _, _)
ExtractToolCalls(st, data, content) ==
    IF content = <<>> THEN st
    ELSE LET item == Head(content)
             parent == Get(data, "parent_tool_use_id", Null)
             tc == ToolCallOf(item, OutputTotal(UsageOf(data)), st.tool_index)
         IN ExtractToolCalls(
                IF IsToolUse(item)
                THEN SessState(IF parent = Null
                               THEN [st.session EXCEPT !.tool_calls = Append(@, tc)]
                               ELSE st.session,
                               st.tool_index + 1)
                ELSE st,
                data, Tail(content))

\* "Accumulate tokens"
Accumulate(s, usage) ==
    [s EXCEPT !.total_input_tokens = @ + InputTotal(usage),
              !.total_output_tokens = @ + OutputTotal(usage)]

\* The body of the loop over the lines of the session transcript
SessStep(st, line) ==
    IF line.kind # "json" THEN st
    ELSE IF Get(line.data, "type", Null) = "assistant"
    THEN ExtractToolCalls(
             SessState(Accumulate(st.session, UsageOf(line.data)), st.tool_index),
             line.data, ContentOf(line.data))
    ELSE st

\* The loop of parse_session over a whole transcript, from the state st
RECURSIVE ParseSessionLines(_, _)
ParseSessionLines(st, lines) ==
    IF lines = <<>> THEN st
    ELSE ParseSessionLines(SessStep(st, Head(lines)), Tail(lines))

\* The state the loop of _parse_agent_file updates
AgentState(a, ti) == [agent |-> a, tool_index |-> ti]

DetectAgentType_DefaultOpus(a, data) ==
    LET model == Get(data, "model", <<>>)
    IN IF Contains(model, Haiku) THEN [a EXCEPT !.agent_type = "Explore/Haiku"]
       ELSE IF Contains(model, Sonnet) THEN [a EXCEPT !.agent_type = "Sonnet"]
       ELSE [a EXCEPT !.agent_type = "Opus"]

\* "Try to detect agent type from model"
DetectAgentType(a, data) ==
    LET model == Get(data, "model", <<>>)
    IN IF Contains(model, Haiku) THEN [a EXCEPT !.agent_type = "Explore/Haiku"]
       ELSE IF Contains(model, Sonnet) THEN [a EXCEPT !.agent_type = "Sonnet"]
       ELSE IF Contains(model, Opus) THEN [a EXCEPT !.agent_type = "Opus"]
       ELSE a

RECURSIVE ExtractAgentToolCalls_TopLevelOnly(_, _, _)
ExtractAgentToolCalls_TopLevelOnly(st, data, content) ==
    IF content = <<>> THEN st
    ELSE LET item == Head(content)
             parent == Get(data, "parent_tool_use_id", Null)
             tc == ToolCallOf(item, OutputTotal(UsageOf(data)), st.tool_index)
         IN ExtractAgentToolCalls_TopLevelOnly(
                IF IsToolUse(item)
                THEN AgentState(IF parent = Null
                                THEN [st.agent EXCEPT !.tool_calls = Append(@, tc)]
                                ELSE st.agent,
                                st.tool_index + 1)
                ELSE st,
                data, Tail(content))

\* The loop over the content blocks of one turn of an agent file
RECURSIVE ExtractAgentToolCalls(_, _, _)
ExtractAgentToolCalls(st, data, content) ==
    IF content = <<>> THEN st
    ELSE LET item == Head(content)
             tc == ToolCallOf(item, OutputTotal(UsageOf(data)), st.tool_index)
         IN ExtractAgentToolCalls(
                IF IsToolUse(item)
                THEN AgentState([st.agent EXCEPT !.tool_calls = Append(@, tc)],
                                st.tool_index + 1)
                ELSE st,
                data, Tail(content))

\* The body of the loop over the lines of an agent file
AgentStep(st, line) ==
    IF line.kind # "json" THEN st
    ELSE LET typed == IF IsInitRecord(line.data)
                      THEN AgentState(DetectAgentType(st.agent, line.data), st.tool_index)
                      ELSE st
         IN IF Get(line.data, "type", Null) = "assistant"
            THEN ExtractAgentToolCalls(
                     AgentState(Accumulate(typed.agent, UsageOf(line.data)),
                                typed.tool_index),
                     line.data, ContentOf(line.data))
            ELSE typed

\* The loop of _parse_agent_file over a whole file, from the state st
RECURSIVE ParseAgentLines(_, _)
ParseAgentLines(st, lines) ==
    IF lines = <<>> THEN st
    ELSE ParseAgentLines(AgentStep(st, Head(lines)), Tail(lines))

\* The agent files of a session have the names "a1" and "a2"; "a1" sorts first
AgentFileRank(name) == IF name = "a1" THEN 1 ELSE 2

RECURSIVE SortedFiles_Descending(_)
SortedFiles_Descending(files) ==
    IF files = {} THEN <<>>
    ELSE LET first == CHOOSE f \in files :
                        \A g \in files : AgentFileRank(f) >= AgentFileRank(g)
         IN <<first>> \o SortedFiles_Descending(files \ {first})

\* sorted(agent_dir.glob("*.jsonl")), as the stems of the files
RECURSIVE SortedFiles(_)
SortedFiles(files) ==
    IF files = {} THEN <<>>
    ELSE LET first == CHOOSE f \in files :
                        \A g \in files : AgentFileRank(f) <= AgentFileRank(g)
         IN <<first>> \o SortedFiles(files \ {first})

RECURSIVE SumLen(_)
SumLen(seqs) == IF seqs = <<>> THEN 0 ELSE Len(Head(seqs)) + SumLen(Tail(seqs))

\* The lines read so far by the running parse_session call
LinesRead == Len(transcript) + SumLen(atranscripts)

SessionFileMissing_IgnoreRuntimeDir(rd, files) == ~files.session_file

\* "if not self.runtime_dir" or "if not session_file.exists()"
SessionFileMissing(rd, files) == rd = None \/ ~files.session_file

\* _parse_agent_file on the file of stem id that holds these lines
ParseAgentFile(id, lines) ==
    ParseAgentLines(AgentState(AgentSession(id, "unknown"), 0), lines).agent

\* parse_session from its call to its return, on a session directory that
\* holds the transcript files.lines and the agent files files.agent_lines
ParseSession(rd, sid, files) ==
    IF SessionFileMissing(rd, files) THEN EmptySession(sid)
    ELSE LET st == ParseSessionLines(SessState(EmptySession(sid), 0), files.lines)
             stems == IF files.agent_dir THEN SortedFiles(files.agent_files) ELSE <<>>
         IN [st.session EXCEPT !.agents =
                [k \in 1..Len(stems) |->
                    ParseAgentFile(stems[k], files.agent_lines[stems[k]])]]

\* parse_session is called and returns the empty session at once
ParseSessionMissing ==
    /\ pc = "start"
    /\ SessionFileMissing(runtime_dir, fs)
    /\ session' = EmptySession(session_id)
    /\ pc' = "returned"
    /\ UNCHANGED <<ralphVars, mainVars, logVars, runtime_dir, fs, session_id, transcript, tool_index, agent_files,
                   atranscripts, agent, agent_tool_index, findings>>

\* parse_session is called and opens the transcript
OpenSessionFile ==
    /\ pc = "start"
    /\ ~SessionFileMissing(runtime_dir, fs)
    /\ session' = EmptySession(session_id)
    /\ tool_index' = 0
    /\ transcript' = <<>>
    /\ pc' = "session"
    /\ UNCHANGED <<ralphVars, mainVars, logVars, runtime_dir, fs, session_id, agent_files, atranscripts, agent,
                   agent_tool_index, findings>>

\* One turn of the loop of parse_session: the next line of the file is line
ReadSessionLine(line) ==
    /\ pc = "session"
    /\ LinesRead < MaxLines
    /\ transcript' = Append(transcript, line)
    /\ LET st == SessStep(SessState(session, tool_index), line)
       IN /\ session' = st.session
          /\ tool_index' = st.tool_index
    /\ UNCHANGED <<ralphVars, mainVars, pc, logVars, runtime_dir, fs, session_id, agent_files, atranscripts, agent,
                   agent_tool_index, findings>>

ReadAssistant == \E line \in AssistantLines : ReadSessionLine(line)
ReadOtherType == \E line \in UserLines : ReadSessionLine(line)
ReadSessionMalformed == \E line \in MalformedLines : ReadSessionLine(line)

\* The transcript ends: "Parse agent sub-sessions"
EndSessionFile ==
    /\ pc = "session"
    /\ agent_files' = IF fs.agent_dir THEN SortedFiles(fs.agent_files) ELSE <<>>
    /\ pc' = "agents"
    /\ UNCHANGED <<ralphVars, mainVars, logVars, runtime_dir, fs, session_id, transcript, session, tool_index,
                   atranscripts, agent, agent_tool_index, findings>>

\* _parse_agent_file is called on the next agent file
BeginAgentFile ==
    /\ pc = "agents"
    /\ agent_files # <<>>
    /\ agent' = AgentSession(Head(agent_files), "unknown")
    /\ agent_tool_index' = 0
    /\ atranscripts' = Append(atranscripts, <<>>)
    /\ agent_files' = Tail(agent_files)
    /\ pc' = "agent"
    /\ UNCHANGED <<ralphVars, mainVars, logVars, runtime_dir, fs, session_id, transcript, session, tool_index,
                   findings>>

\* One turn of the loop of _parse_agent_file: the next line of the file is line
ReadAgentLine(line) ==
    /\ pc = "agent"
    /\ LinesRead < MaxLines
    /\ SumLen(atranscripts) < MaxAgentLines
    /\ atranscripts' = [atranscripts EXCEPT ![Len(atranscripts)] = Append(@, line)]
    /\ LET st == AgentStep(AgentState(agent, agent_tool_index), line)
       IN /\ agent' = st.agent
          /\ agent_tool_index' = st.tool_index
    /\ UNCHANGED <<ralphVars, mainVars, pc, logVars, runtime_dir, fs, session_id, transcript, session, tool_index,
                   agent_files, findings>>

ReadAgentInit == \E line \in AgentInitLines : ReadAgentLine(line)
ReadAgentAssistant == \E line \in AssistantLines : ReadAgentLine(line)
ReadAgentOtherType == \E line \in UserLines : ReadAgentLine(line)
ReadAgentMalformed == \E line \in MalformedLines : ReadAgentLine(line)

\* The agent file ends: the AgentSession is appended to session.agents
EndAgentFile ==
    /\ pc = "agent"
    /\ session' = [session EXCEPT !.agents = Append(@, agent)]
    /\ pc' = "agents"
    /\ UNCHANGED <<ralphVars, mainVars, logVars, runtime_dir, fs, session_id, transcript, tool_index, agent_files,
                   atranscripts, agent, agent_tool_index, findings>>

\* No agent file is left: parse_session returns session
ReturnSession ==
    /\ pc = "agents"
    /\ agent_files = <<>>
    /\ pc' = "returned"
    /\ UNCHANGED <<ralphVars, mainVars, logVars, runtime_dir, sessVars, findings>>

----------------------------------------------------------------------------
(* PatternDetector *)

\* "Estimate ~500 tokens per wasted read"
WastedTokensPerRead == 500

\* The 5 of "if edit_count >= 5"
LateTestMinEdits == 5

\* The 3 of "if len(agent.tool_calls) < 3"
OverheadCalls == 3

\* The 5000 of "estimated_waste_tokens=total_late_tests * 5000"
LateTestWaste == 5000

\* The 2000 of "estimated_waste_tokens=total_overhead_agents * 2000"
OverheadWaste == 2000


\* test_patterns
TestPatterns ==
    {<<"g", "o", " ", "t", "e", "s", "t">>,
     <<"n", "p", "m", " ", "t", "e", "s", "t">>,
     <<"v", "i", "t", "e", "s", "t">>,
     <<"v", "e", "r", "i", "f", "y", "-", "a", "l", "l">>,
     <<"t", "e", "s", "t", "-", "b", "a", "c", "k", "e", "n", "d">>,
     <<"t", "e", "s", "t", "-", "f", "r", "o", "n", "t", "e", "n", "d">>,
     <<"t", "e", "s", "t", "-", "e", "2", "e">>}

\* A dict is the sequence of its <<key, value>> pairs in insertion order
DictKeys(d) == {d[i][1] : i \in 1..Len(d)}

DictGet(d, k, default) ==
    IF k \in DictKeys(d)
    THEN d[CHOOSE i \in 1..Len(d) : d[i][1] = k][2]
    ELSE default

\* d[k] = d.get(k, 0) + 1
DictCount(d, k) ==
    IF k \in DictKeys(d)
    THEN [i \in 1..Len(d) |-> IF d[i][1] = k THEN <<k, d[i][2] + 1>> ELSE d[i]]
    ELSE Append(d, <<k, 1>>)

\* sum(x.field for x in seq)
RECURSIVE SumOver(_, _)
SumOver(seq, field) ==
    IF seq = <<>> THEN 0
    ELSE Head(seq)[field] + SumOver(Tail(seq), field)

\* sum(d.values())
RECURSIVE SumValues(_)
SumValues(d) == IF d = <<>> THEN 0 ELSE Head(d)[2] + SumValues(Tail(d))

\* d.setdefault(k, []).append(v)
DictAppend(d, k, v) ==
    IF k \in DictKeys(d)
    THEN [i \in 1..Len(d) |-> IF d[i][1] = k THEN <<k, Append(d[i][2], v)>> ELSE d[i]]
    ELSE Append(d, <<k, <<v>>>>)

\* reads: file_path -> the indices of the Read calls on it
RECURSIVE ReadIndices(_)
ReadIndices(calls) ==
    IF calls = <<>> THEN <<>>
    ELSE LET tc == calls[Len(calls)]
             reads == ReadIndices(SubSeq(calls, 1, Len(calls) - 1))
             fp == Get(tc.input, "file_path", "")
         IN IF tc.name = "Read" /\ fp # "" THEN DictAppend(reads, fp, tc.index)
            ELSE reads

\* edit_indices: file_path -> the indices of the Edit and Write calls on it
RECURSIVE EditIndices(_)
EditIndices(calls) ==
    IF calls = <<>> THEN <<>>
    ELSE LET tc == calls[Len(calls)]
             edits == EditIndices(SubSeq(calls, 1, Len(calls) - 1))
             fp == Get(tc.input, "file_path", "")
         IN IF tc.name \in {"Edit", "Write"} /\ fp # "" THEN DictAppend(edits, fp, tc.index)
            ELSE edits

HasInterveningEdit_AnyFile(edit_indices, fp, prev_idx, curr_idx) ==
    \E j \in 1..Len(edit_indices) :
        \E k \in 1..Len(edit_indices[j][2]) :
            prev_idx < edit_indices[j][2][k] /\ edit_indices[j][2][k] < curr_idx

\* any(prev_idx < e_idx < curr_idx for e_idx in edit_indices.get(fp, []))
HasInterveningEdit(edit_indices, fp, prev_idx, curr_idx) ==
    LET edit_idxs == DictGet(edit_indices, fp, <<>>)
    IN \E k \in 1..Len(edit_idxs) : prev_idx < edit_idxs[k] /\ edit_idxs[k] < curr_idx

\* wasted_reads: "Count reads without intervening edits"
WastedReads(edit_indices, fp, indices) ==
    Cardinality({i \in 2..Len(indices) :
                    ~HasInterveningEdit(edit_indices, fp, indices[i - 1], indices[i])})

RedundantRead(file_path, read_count, first_read_index, total_wasted_tokens) ==
    [file_path |-> file_path, read_count |-> read_count,
     first_read_index |-> first_read_index,
     total_wasted_tokens |-> total_wasted_tokens]

\* The loop over reads.items() that builds redundant
RECURSIVE RedundantOf(_, _)
RedundantOf(reads, edit_indices) ==
    IF reads = <<>> THEN <<>>
    ELSE LET fp == reads[Len(reads)][1]
             indices == reads[Len(reads)][2]
             rest == RedundantOf(SubSeq(reads, 1, Len(reads) - 1), edit_indices)
             wasted_reads == WastedReads(edit_indices, fp, indices)
         IN IF Len(indices) <= 1 THEN rest
            ELSE IF wasted_reads > 0
            THEN Append(rest, RedundantRead(fp, Len(indices), indices[1],
                                            wasted_reads * WastedTokensPerRead))
            ELSE rest

\* sorted(redundant, key=total_wasted_tokens, reverse=True): a stable sort,
\* so findings of equal waste keep their order
RECURSIVE SortByWaste(_)
SortByWaste(rs) ==
    IF rs = <<>> THEN <<>>
    ELSE LET r == rs[Len(rs)]
             sorted == SortByWaste(SubSeq(rs, 1, Len(rs) - 1))
             before == SelectSeq(sorted,
                                 LAMBDA x : x.total_wasted_tokens >= r.total_wasted_tokens)
             after == SelectSeq(sorted,
                                LAMBDA x : x.total_wasted_tokens < r.total_wasted_tokens)
         IN before \o <<r>> \o after

\* PatternDetector.find_redundant_reads
FindRedundantReads(s) ==
    SortByWaste(RedundantOf(ReadIndices(s.tool_calls), EditIndices(s.tool_calls)))

\* any(p in cmd for p in test_patterns)
IsTestCommand(cmd) == \E p \in TestPatterns : Contains(cmd, p)

IsTestCall(tc) ==
    tc.name = "Bash" /\ IsTestCommand(Get(tc.input, "command", <<>>))

LateTestScan_NoBreak(calls, i, edit_count) ==
    LET tests == {k \in 1..Len(calls) : IsTestCall(calls[k])}
    IN [edit_count |->
            Cardinality({k \in 1..Len(calls) : calls[k].name \in {"Edit", "Write"}}),
        first_test_index |->
            IF tests = {} THEN -1
            ELSE (CHOOSE k \in tests : \A j \in tests : k <= j) - 1]

\* The loop over enumerate(session.tool_calls), from the i-th call on (i is
\* 0-based), with its break at the first test call
RECURSIVE LateTestScan(_, _, _)
LateTestScan(calls, i, edit_count) ==
    IF i >= Len(calls) THEN [edit_count |-> edit_count, first_test_index |-> -1]
    ELSE LET tc == calls[i + 1]
         IN IF tc.name \in {"Edit", "Write"}
            THEN LateTestScan(calls, i + 1, edit_count + 1)
            ELSE IF IsTestCall(tc)
            THEN [edit_count |-> edit_count, first_test_index |-> i]
            ELSE LateTestScan(calls, i + 1, edit_count)

LateTestRun(edits_before_test, first_test_index, total_tool_calls) ==
    [edits_before_test |-> edits_before_test,
     first_test_index |-> first_test_index,
     total_tool_calls |-> total_tool_calls]

ReportNoTest_Threshold(edit_count, total) ==
    IF edit_count >= LateTestMinEdits
    THEN <<LateTestRun(edit_count, -1, total)>>
    ELSE <<>>

\* "No test run found - but only report if edits were made"
ReportNoTest(edit_count, total) ==
    IF edit_count > 0
    THEN <<LateTestRun(edit_count, -1, total)>>
    ELSE <<>>

\* The report of a test call found
ReportLateTest(edit_count, first_test_index, total) ==
    IF edit_count >= LateTestMinEdits
    THEN <<LateTestRun(edit_count, first_test_index, total)>>
    ELSE <<>>

\* PatternDetector.find_late_test_runs
FindLateTestRuns(s) ==
    LET scan == LateTestScan(s.tool_calls, 0, 0)
    IN IF scan.first_test_index = -1
       THEN ReportNoTest(scan.edit_count, Len(s.tool_calls))
       ELSE ReportLateTest(scan.edit_count, scan.first_test_index, Len(s.tool_calls))

AgentOverhead(agent_id, agent_type, tool_call_count) ==
    [agent_id |-> agent_id, agent_type |-> agent_type,
     tool_call_count |-> tool_call_count]

FewToolCalls_Inclusive(a) == Len(a.tool_calls) <= OverheadCalls

\* len(agent.tool_calls) < 3
FewToolCalls(a) == Len(a.tool_calls) < OverheadCalls

\* PatternDetector.find_agent_overhead
FindAgentOverhead(s) ==
    LET flagged == SelectSeq(s.agents, FewToolCalls)
    IN [k \in 1..Len(flagged) |->
           AgentOverhead(flagged[k].agent_id, flagged[k].agent_type,
                         Len(flagged[k].tool_calls))]

LargeFileRead(file_path, lines_read, read_count) ==
    [file_path |-> file_path, lines_read |-> lines_read, read_count |-> read_count]

\* "offset" in inp, "limit" in inp
HasKey(inp, k) == k \in DOMAIN inp

RECURSIVE LargeReads_CountsLimited(_)
LargeReads_CountsLimited(calls) ==
    IF calls = <<>> THEN <<>>
    ELSE LET tc == calls[Len(calls)]
             large_reads == LargeReads_CountsLimited(SubSeq(calls, 1, Len(calls) - 1))
             fp == Get(tc.input, "file_path", "")
         IN IF /\ tc.name = "Read"
               /\ fp # ""
               /\ ~HasKey(tc.input, "offset")
            THEN DictCount(large_reads, fp)
            ELSE large_reads

\* large_reads: file_path -> the number of Read calls on it without offset
\* and without limit
RECURSIVE LargeReads(_)
LargeReads(calls) ==
    IF calls = <<>> THEN <<>>
    ELSE LET tc == calls[Len(calls)]
             large_reads == LargeReads(SubSeq(calls, 1, Len(calls) - 1))
             fp == Get(tc.input, "file_path", "")
         IN IF /\ tc.name = "Read"
               /\ fp # ""
               /\ ~HasKey(tc.input, "offset")
               /\ ~HasKey(tc.input, "limit")
            THEN DictCount(large_reads, fp)
            ELSE large_reads

\* sorted(results, key=lambda r: r.read_count, reverse=True)
RECURSIVE SortByReadCount(_)
SortByReadCount(rs) ==
    IF rs = <<>> THEN <<>>
    ELSE LET r == rs[Len(rs)]
             sorted == SortByReadCount(SubSeq(rs, 1, Len(rs) - 1))
             before == SelectSeq(sorted, LAMBDA x : x.read_count >= r.read_count)
             after == SelectSeq(sorted, LAMBDA x : x.read_count < r.read_count)
         IN before \o <<r>> \o after

\* PatternDetector.find_large_file_reads
FindLargeFileReads(s) ==
    LET large_reads == LargeReads(s.tool_calls)
        many == SelectSeq(large_reads, LAMBDA e : e[2] > 1)
    IN SortByReadCount([k \in 1..Len(many) |-> LargeFileRead(many[k][1], 0, many[k][2])])

Pattern(name, description, occurrences, estimated_waste_tokens, suggestion) ==
    [name |-> name, description |-> description, occurrences |-> occurrences,
     estimated_waste_tokens |-> estimated_waste_tokens, suggestion |-> suggestion]

\* The counters of detect_all_patterns before its loop over sessions
NoCounts ==
    [total_redundant_reads |-> 0, total_redundant_tokens |-> 0,
     total_late_tests |-> 0, total_overhead_agents |-> 0,
     top_redundant_files |-> <<>>]

\* top_redundant_files[k] = top_redundant_files.get(k, 0) + n
DictAdd(d, k, n) ==
    IF k \in DictKeys(d)
    THEN [i \in 1..Len(d) |-> IF d[i][1] = k THEN <<k, d[i][2] + n>> ELSE d[i]]
    ELSE Append(d, <<k, n>>)

\* The loop over the redundant reads of one session
RECURSIVE AddRedundant(_, _)
AddRedundant(c, redundant) ==
    IF redundant = <<>> THEN c
    ELSE LET r == Head(redundant)
         IN AddRedundant(
                [c EXCEPT !.total_redundant_reads = @ + (r.read_count - 1),
                          !.total_redundant_tokens = @ + r.total_wasted_tokens,
                          !.top_redundant_files = DictAdd(@, r.file_path, r.read_count)],
                Tail(redundant))

CountSession_WithLargeReads(c, s) ==
    [AddRedundant(c, FindRedundantReads(s)) EXCEPT
        !.total_redundant_reads = @ + Len(FindLargeFileReads(s)),
        !.total_late_tests = @ + Len(FindLateTestRuns(s)),
        !.total_overhead_agents = @ + Len(FindAgentOverhead(s))]

\* The body of the loop over sessions
CountSession(c, s) ==
    [AddRedundant(c, FindRedundantReads(s)) EXCEPT
        !.total_late_tests = @ + Len(FindLateTestRuns(s)),
        !.total_overhead_agents = @ + Len(FindAgentOverhead(s))]

\* The loop over sessions
RECURSIVE CountSessions(_, _)
CountSessions(c, ss) ==
    IF ss = <<>> THEN c
    ELSE CountSessions(CountSession(c, Head(ss)), Tail(ss))

\* sorted(top_redundant_files.items(), key=lambda x: x[1], reverse=True)
RECURSIVE SortByCount(_)
SortByCount(d) ==
    IF d = <<>> THEN <<>>
    ELSE LET e == d[Len(d)]
             sorted == SortByCount(SubSeq(d, 1, Len(d) - 1))
             before == SelectSeq(sorted, LAMBDA x : x[2] >= e[2])
             after == SelectSeq(sorted, LAMBDA x : x[2] < e[2])
         IN before \o <<e>> \o after

\* The 3 of "[:3]"
TopFiles == 3

\* The pattern appended "if total_redundant_reads > 0"; its description is
\* kept as the values the text is formatted from
RedundantPattern(c, n) ==
    IF c.total_redundant_reads > 0
    THEN LET sorted == SortByCount(c.top_redundant_files)
             top_files == SubSeq(sorted, 1,
                                 IF Len(sorted) < TopFiles THEN Len(sorted) ELSE TopFiles)
         IN <<Pattern("Redundant File Reads",
                      [count |-> c.total_redundant_reads, sessions |-> n,
                       top |-> top_files],
                      c.total_redundant_reads, c.total_redundant_tokens,
                      "Pre-load frequently read files into prompt or use subagent summaries")>>
    ELSE <<>>

\* The pattern appended "if total_late_tests > 0"
LatePattern(c) ==
    IF c.total_late_tests > 0
    THEN <<Pattern("Late Test Execution",
                   [count |-> c.total_late_tests, sessions |-> 0, top |-> <<>>],
                   c.total_late_tests, c.total_late_tests * LateTestWaste,
                   "Run tests after every 2-3 edits to catch issues sooner")>>
    ELSE <<>>

\* The pattern appended "if total_overhead_agents > 0"
OverheadPattern(c) ==
    IF c.total_overhead_agents > 0
    THEN <<Pattern("Low-Value Agent Launches",
                   [count |-> c.total_overhead_agents, sessions |-> 0, top |-> <<>>],
                   c.total_overhead_agents, c.total_overhead_agents * OverheadWaste,
                   "Use direct Grep/Read instead of launching agents for simple lookups")>>
    ELSE <<>>

SortPatterns_Unsorted(ps) == ps

\* sorted(patterns, key=lambda p: p.estimated_waste_tokens, reverse=True)
RECURSIVE SortPatterns(_)
SortPatterns(ps) ==
    IF ps = <<>> THEN <<>>
    ELSE LET p == ps[Len(ps)]
             sorted == SortPatterns(SubSeq(ps, 1, Len(ps) - 1))
             before == SelectSeq(sorted,
                                 LAMBDA x : x.estimated_waste_tokens
                                              >= p.estimated_waste_tokens)
             after == SelectSeq(sorted,
                                LAMBDA x : x.estimated_waste_tokens
                                             < p.estimated_waste_tokens)
         IN before \o <<p>> \o after

\* PatternDetector.detect_all_patterns
DetectAllPatterns(ss) ==
    LET c == CountSessions(NoCounts, ss)
    IN SortPatterns(RedundantPattern(c, Len(ss)) \o LatePattern(c) \o OverheadPattern(c))

\* find_redundant_reads is called on the session
RunFindRedundantReads ==
    /\ pc = "detect"
    /\ findings' = FindRedundantReads(session)
    /\ pc' = "redundant_reads"
    /\ UNCHANGED <<ralphVars, mainVars, logVars, runtime_dir, sessVars>>

\* find_late_test_runs is called on the session
RunFindLateTestRuns ==
    /\ pc = "detect"
    /\ findings' = FindLateTestRuns(session)
    /\ pc' = "late_tests"
    /\ UNCHANGED <<ralphVars, mainVars, logVars, runtime_dir, sessVars>>

\* find_agent_overhead is called on the session
RunFindAgentOverhead ==
    /\ pc = "detect"
    /\ findings' = FindAgentOverhead(session)
    /\ pc' = "agent_overhead"
    /\ UNCHANGED <<ralphVars, mainVars, logVars, runtime_dir, sessVars>>

\* find_large_file_reads is called on the session
RunFindLargeFileReads ==
    /\ pc = "detect"
    /\ findings' = FindLargeFileReads(session)
    /\ pc' = "large_reads"
    /\ UNCHANGED <<ralphVars, mainVars, logVars, runtime_dir, sessVars>>

\* detect_all_patterns is called on the sessions
RunDetectAllPatterns ==
    /\ pc = "detect_all"
    /\ patterns' = DetectAllPatterns(sessions)
    /\ detect_calls' = detect_calls + 1
    /\ pc' = "patterns"
    /\ UNCHANGED <<ralphVars, logVars, runtime_dir, sessVars, findings, args, disk, log_path,
                   it_index, sessions, costs, stdout, stderr, exit_code>>

\* The transcript line of a turn with one tool_use block
CallLine(name, input, nested) ==
    [kind |-> "json",
     data |-> IF nested
              THEN [type |-> "assistant", parent_tool_use_id |-> "toolu_1",
                    message |-> [usage |-> FullUsage,
                                 content |-> <<ToolUse(name, input)>>]]
              ELSE [type |-> "assistant",
                    message |-> [usage |-> FullUsage,
                                 content |-> <<ToolUse(name, input)>>]]]

\* Turns that read and edit two files, and a nested call
ReadEditLines ==
    {CallLine("Read", [file_path |-> "a"], FALSE),
     CallLine("Read", [file_path |-> "b"], FALSE),
     CallLine("Edit", [file_path |-> "a"], FALSE),
     CallLine("Write", [file_path |-> "b"], FALSE),
     CallLine("Edit", [file_path |-> "a"], TRUE)}

GoTest == [command |-> <<"g", "o", " ", "t", "e", "s", "t">>]

\* Turns that edit, run the tests and run another command
EditTestLines ==
    {CallLine("Edit", [file_path |-> "a"], FALSE),
     CallLine("Write", [file_path |-> "b"], FALSE),
     CallLine("Bash", GoTest, FALSE),
     CallLine("Bash", BashLs, FALSE)}

SeqsUpTo(S, n) == UNION {[1..k -> S] : k \in 0..n}

\* The lines of an agent file: an initialization record of the cheap tier,
\* a turn with one call and a turn with two calls after a text block
AgentCallLines ==
    {[kind |-> "json",
      data |-> [type |-> "system", subtype |-> "init",
                model |-> <<"c", "-">> \o Haiku \o <<"-", "4">>]],
     CallLine("Grep", [pattern |-> "x"], FALSE),
     [kind |-> "json",
      data |-> [type |-> "assistant",
                message |-> [usage |-> PartialUsage,
                             content |-> <<TextBlock,
                                           ToolUse("Read", [file_path |-> "a"]),
                                           ToolUse("Glob", [pattern |-> "x"])>>]]]}

\* Turns that read two files whole, from an offset and up to a limit
LargeReadLines ==
    {CallLine("Read", [file_path |-> "a"], FALSE),
     CallLine("Read", [file_path |-> "b"], FALSE),
     CallLine("Read", [file_path |-> "a", offset |-> 0], FALSE),
     CallLine("Read", [file_path |-> "b", limit |-> 10], FALSE)}

\* A session directory that holds a transcript and no agent file
TranscriptOnly(lines) ==
    [session_file |-> TRUE, agent_dir |-> FALSE, agent_files |-> {},
     lines |-> lines, agent_lines |-> <<>>]

\* A session directory that holds an empty transcript and these agent files
AgentsOnly(agent_lines) ==
    [session_file |-> TRUE, agent_dir |-> TRUE, agent_files |-> DOMAIN agent_lines,
     lines |-> <<>>, agent_lines |-> agent_lines]

\* The session directories given to the detectors
DetectFiles ==
    {TranscriptOnly(t) : t \in SeqsUpTo(ReadEditLines, MaxReadCalls)
                                \cup SeqsUpTo(EditTestLines, MaxTestCalls)
                                \cup SeqsUpTo(LargeReadLines, MaxLargeReads)}
    \cup {AgentsOnly(al) :
            al \in UNION {[stems -> SeqsUpTo(AgentCallLines, MaxAgentTurns)] :
                            stems \in {{"a1"}, {"a1", "a2"}}}}


\* A Read call that carries an offset
BoundedRead(fp) == CallLine("Read", [file_path |-> fp, offset |-> 0], FALSE)

\* The transcripts of the sessions of a batch: an empty one; a file read
\* twice; a file read, edited and read twice; five edits and then the tests;
\* a file read before and after its edit; a file read twice with an offset; two files read
\* four times and three times
PatternTranscripts ==
    LET Ra == CallLine("Read", [file_path |-> "a"], FALSE)
        Rb == CallLine("Read", [file_path |-> "b"], FALSE)
        Ea == CallLine("Edit", [file_path |-> "a"], FALSE)
    IN {<<>>,
        <<Ra, Ra>>,
        <<Ra, Ea, Ra, Ra>>,
        <<Ea, Ea, Ea, Ea, Ea, CallLine("Bash", GoTest, FALSE)>>,
        <<Ra, Ea, Ra>>,
        <<BoundedRead("a"), BoundedRead("a")>>,
        <<Rb, Ra, Ra, Rb, Ra, Rb, Rb>>}

\* The agent files of the sessions of a batch: none; one agent of two calls;
\* one agent of three calls; an agent of one call and an agent of none
PatternAgents ==
    LET one == CallLine("Grep", [pattern |-> "x"], FALSE)
        two == [kind |-> "json",
                data |-> [type |-> "assistant",
                          message |-> [usage |-> PartialUsage,
                                       content |-> <<ToolUse("Read", [file_path |-> "a"]),
                                                     ToolUse("Glob", [pattern |-> "x"])>>]]]
    IN {<<>>,
        [stem \in {"a1"} |-> <<two>>],
        [stem \in {"a1"} |-> <<one, two>>],
        [stem \in {"a1", "a2"} |-> IF stem = "a1" THEN <<one>> ELSE <<>>]}

\* The session directories of a batch
PatternFiles ==
    {[session_file |-> TRUE, agent_dir |-> DOMAIN al # {}, agent_files |-> DOMAIN al,
      lines |-> t, agent_lines |-> al] :
        <<t, al>> \in PatternTranscripts \X PatternAgents}

----------------------------------------------------------------------------
(* CostAnalyzer *)

\* The prices of a token, in hundredths of a dollar per million tokens, so
\* that each is a whole number: OPUS_INPUT_PRICE is 15.0 / 1_000_000 dollars
OPUS_INPUT_PRICE == 1500
OPUS_OUTPUT_PRICE == 7500
HAIKU_INPUT_PRICE == 80
HAIKU_OUTPUT_PRICE == 400

\* CostBreakdown(input_tokens, output_tokens); estimated_cost_usd is in the
\* unit of the prices, a hundred-millionth of a dollar
CostBreakdown(input_tokens, output_tokens) ==
    [input_tokens |-> input_tokens, output_tokens |-> output_tokens,
     estimated_cost_usd |-> 0, by_tool |-> <<>>]

\* The tier words that the agent types written by _parse_agent_file hold
TypeWords(agent_type) ==
    CASE agent_type = "Explore/Haiku" -> {"Explore", "Haiku"}
      [] agent_type = "Sonnet" -> {"Sonnet"}
      [] agent_type = "Opus" -> {"Opus"}
      [] OTHER -> {}

\* word in agent_type
InType(word, agent_type) == word \in TypeWords(agent_type)

\* 100000 of the unit of the prices is a thousandth of a dollar
TopLevelCost_WholeMillis(s) ==
    ((s.total_input_tokens * OPUS_INPUT_PRICE
      + s.total_output_tokens * OPUS_OUTPUT_PRICE) \div 100000) * 100000

\* "Main session (Opus pricing)"
TopLevelCost(s) ==
    s.total_input_tokens * OPUS_INPUT_PRICE
    + s.total_output_tokens * OPUS_OUTPUT_PRICE

AgentCost_CheapIfNotOpus(a) ==
    IF ~InType("Opus", a.agent_type)
    THEN a.total_input_tokens * HAIKU_INPUT_PRICE
         + a.total_output_tokens * HAIKU_OUTPUT_PRICE
    ELSE a.total_input_tokens * OPUS_INPUT_PRICE
         + a.total_output_tokens * OPUS_OUTPUT_PRICE

\* What one agent adds to cost
AgentCost(a) ==
    IF InType("Haiku", a.agent_type) \/ InType("Explore", a.agent_type)
    THEN a.total_input_tokens * HAIKU_INPUT_PRICE
         + a.total_output_tokens * HAIKU_OUTPUT_PRICE
    ELSE a.total_input_tokens * OPUS_INPUT_PRICE
         + a.total_output_tokens * OPUS_OUTPUT_PRICE

AddAgentTokens_OutputOnly(b, a) ==
    [b EXCEPT !.output_tokens = @ + a.total_output_tokens]

\* breakdown.input_tokens += ...; breakdown.output_tokens += ...
AddAgentTokens(b, a) ==
    [b EXCEPT !.input_tokens = @ + a.total_input_tokens,
              !.output_tokens = @ + a.total_output_tokens]

\* The loop over session.agents, from the breakdown b and the cost so far
RECURSIVE PriceAgents(_, _)
PriceAgents(b, agents) ==
    IF agents = <<>> THEN b
    ELSE PriceAgents(
             [AddAgentTokens(b, Head(agents))
                 EXCEPT !.estimated_cost_usd = @ + AgentCost(Head(agents))],
             Tail(agents))

\* The spelling of the tool names of the model
Chars(name) ==
    CASE name = "Read" -> <<"R", "e", "a", "d">>
      [] name = "Edit" -> <<"E", "d", "i", "t">>
      [] name = "Write" -> <<"W", "r", "i", "t", "e">>
      [] name = "Bash" -> <<"B", "a", "s", "h">>
      [] name = "Grep" -> <<"G", "r", "e", "p">>
      [] name = "Glob" -> <<"G", "l", "o", "b">>
      [] name = "Agent:Read" -> <<"A", "g", "e", "n", "t", ":", "R", "e", "a", "d">>
      [] OTHER -> <<>>

AgentPrefix == <<"A", "g", "e", "n", "t", ":">>

\* tc.name, the key of a top-level call in by_tool
ToolKey(name) == Chars(name)

AgentToolKey_NoPrefix(name) == Chars(name)

\* f"Agent:{tc.name}", the key of an agent call in by_tool
AgentToolKey(name) == AgentPrefix \o Chars(name)

\* The loop over session.tool_calls
RECURSIVE CountTools(_, _)
CountTools(by_tool, calls) ==
    IF calls = <<>> THEN by_tool
    ELSE CountTools(DictCount(by_tool, ToolKey(Head(calls).name)), Tail(calls))

\* The loop over agent.tool_calls
RECURSIVE CountAgentCalls(_, _)
CountAgentCalls(by_tool, calls) ==
    IF calls = <<>> THEN by_tool
    ELSE CountAgentCalls(DictCount(by_tool, AgentToolKey(Head(calls).name)),
                         Tail(calls))

\* The second loop over session.agents
RECURSIVE CountAgentTools(_, _)
CountAgentTools(by_tool, agents) ==
    IF agents = <<>> THEN by_tool
    ELSE CountAgentTools(CountAgentCalls(by_tool, Head(agents).tool_calls),
                         Tail(agents))

\* CostAnalyzer.estimate_cost
EstimateCost(s) ==
    LET b0 == CostBreakdown(s.total_input_tokens, s.total_output_tokens)
        priced == PriceAgents([b0 EXCEPT !.estimated_cost_usd = TopLevelCost(s)],
                              s.agents)
    IN [priced EXCEPT !.by_tool =
           CountAgentTools(CountTools(priced.by_tool, s.tool_calls), s.agents)]

\* estimate_cost is called on the session
RunEstimateCost ==
    /\ pc = "cost"
    /\ Len(costs) < MaxCostCalls
    /\ sessions' = Append(sessions, session)
    /\ costs' = Append(costs, EstimateCost(session))
    /\ UNCHANGED <<ralphVars, pc, logVars, runtime_dir, sessVars, findings, args, disk,
                   log_path, it_index, patterns, detect_calls, stdout, stderr,
                   exit_code>>

\* The same session with every token count twice as large
DoubleTokensOf(s) ==
    LET DoubleCalls(calls) ==
            [k \in 1..Len(calls) |->
                [calls[k] EXCEPT !.output_tokens = 2 * @]]
    IN [s EXCEPT !.total_input_tokens = 2 * @,
                 !.total_output_tokens = 2 * @,
                 !.tool_calls = DoubleCalls(@),
                 !.agents = [k \in 1..Len(s.agents) |->
                                [s.agents[k] EXCEPT
                                    !.total_input_tokens = 2 * @,
                                    !.total_output_tokens = 2 * @,
                                    !.tool_calls = DoubleCalls(@)]]]

\* The caller goes on with the session whose token counts are doubled
DoubleTokens ==
    /\ pc = "cost"
    /\ sessions # <<>>
    /\ session = sessions[Len(sessions)]
    /\ Len(costs) < MaxCostCalls
    /\ session' = DoubleTokensOf(session)
    /\ UNCHANGED <<ralphVars, mainVars, pc, logVars, runtime_dir, fs, session_id, transcript,
                   tool_index, agent_files, atranscripts, agent, agent_tool_index,
                   findings>>

\* The lines of a transcript given to estimate_cost
CostLines ==
    {CallLine("Read", [file_path |-> "a"], FALSE),
     [kind |-> "json",
      data |-> [type |-> "assistant",
                message |-> [usage |-> PartialUsage,
                             content |-> <<ToolUse("Agent:Read", [file_path |-> "a"])>>]]]}

\* The lines of an agent file given to estimate_cost
CostAgentLines ==
    AgentInitLines \cup {CallLine("Read", [file_path |-> "b"], FALSE)}

\* The session directories given to estimate_cost
CostFiles ==
    {[session_file |-> TRUE, agent_dir |-> stems # {}, agent_files |-> stems,
      lines |-> t, agent_lines |-> al] :
        <<stems, t, al>> \in
            UNION {{stems} \X SeqsUpTo(CostLines, MaxCostTurns)
                           \X [stems -> SeqsUpTo(CostAgentLines, MaxCostTurns)] :
                     stems \in {{}, {"a1"}, {"a1", "a2"}}}}

----------------------------------------------------------------------------
(* main and the Reporter *)

\* The lines of the log main analyses: a header, initialization records of
\* two sessions, an initialization record without session id, and an error
\* result
MainLogLines ==
    {[kind |-> "header", number |-> 1, total |-> 2, timestamp |-> "mon"],
     [kind |-> "json",
      data |-> [type |-> "system", subtype |-> "init", session_id |-> "s1",
                cwd |-> <<"/", "c">>]],
     [kind |-> "json",
      data |-> [type |-> "system", subtype |-> "init", session_id |-> "s2",
                cwd |-> <<"/", "c">>]],
     [kind |-> "json", data |-> [type |-> "system", subtype |-> "init"]],
     [kind |-> "json",
      data |-> [type |-> "result", is_error |-> TRUE, result |-> <<"b", "o", "o", "m">>]]}

\* A session directory without transcript
MissingDir ==
    [session_file |-> FALSE, agent_dir |-> FALSE, agent_files |-> {},
     lines |-> <<>>, agent_lines |-> <<>>]

\* The session directories main can find: none at all, or one for each
\* session id, the first with an agent file
MainDirs ==
    {[sid \in SessionIds |-> MissingDir],
     [sid \in SessionIds |->
        IF sid = "s1"
        THEN [session_file |-> TRUE, agent_dir |-> TRUE, agent_files |-> {"a1"},
              lines |-> <<CallLine("Read", [file_path |-> "a"], FALSE),
                          CallLine("Read", [file_path |-> "a"], FALSE)>>,
              agent_lines |-> [stem \in {"a1"} |->
                                 <<CallLine("Grep", [pattern |-> "x"], FALSE)>>]]
        ELSE TranscriptOnly(<<CallLine("Edit", [file_path |-> "b"], FALSE)>>)]}

\* The session directory of a session id: one the disk holds, or none
DirOf(d, sid) == IF sid \in DOMAIN d.dirs THEN d.dirs[sid] ELSE MissingDir

\* min(len(xs), len(ys)), the length of zip(xs, ys)
ZipLen(xs, ys) == IF Len(xs) < Len(ys) THEN Len(xs) ELSE Len(ys)

\* merged_tools: the by_tool entries of all costs, added up
RECURSIVE MergeTools(_, _)
MergeTools(merged, entries) ==
    IF entries = <<>> THEN merged
    ELSE MergeTools(DictAdd(merged, Head(entries)[1], Head(entries)[2]), Tail(entries))

RECURSIVE MergedTools(_, _)
MergedTools(merged, cs) ==
    IF cs = <<>> THEN merged
    ELSE MergedTools(MergeTools(merged, Head(cs).by_tool), Tail(cs))

\* The 10 of "sorted_tools[:10]"
TopTools == 10

\* sum(1 for it in iterations if it.is_error)
ErrorCount(its) == Cardinality({k \in 1..Len(its) : its[k].is_error})

\* Reporter.summary_report: the values its lines are formatted from
SummaryReport(lp, its, ss, cs, ps) ==
    [kind |-> "summary",
     log_path |-> lp,
     iterations |-> Len(its),
     sessions |-> Len(ss),
     total_cost_usd |-> SumOver(cs, "estimated_cost_usd"),
     total_input_tokens |-> SumOver(cs, "input_tokens"),
     total_output_tokens |-> SumOver(cs, "output_tokens"),
     error_count |-> ErrorCount(its),
     per_session |->
        [k \in 1..ZipLen(its, cs) |->
            [session_id |-> its[k].session_id,
             cost_usd |-> cs[k].estimated_cost_usd,
             tokens |-> cs[k].input_tokens + cs[k].output_tokens,
             is_error |-> its[k].is_error]],
     tools |-> LET sorted_tools == SortByCount(MergedTools(<<>>, cs))
               IN SubSeq(sorted_tools, 1,
                         IF Len(sorted_tools) < TopTools THEN Len(sorted_tools)
                         ELSE TopTools),
     patterns |-> ps]

\* Reporter.detailed_report: the values its lines are formatted from
DetailedReport(s, c) ==
    [kind |-> "detailed",
     session_id |-> s.session_id,
     input_tokens |-> s.total_input_tokens,
     output_tokens |-> s.total_output_tokens,
     cost_usd |-> c.estimated_cost_usd,
     tool_calls |-> s.tool_calls,
     agents |-> [k \in 1..Len(s.agents) |->
                    [agent_id |-> s.agents[k].agent_id,
                     agent_type |-> s.agents[k].agent_type,
                     tool_calls |-> Len(s.agents[k].tool_calls),
                     tokens |-> s.agents[k].total_input_tokens
                                + s.agents[k].total_output_tokens]]]

\* Reporter.json_report
JsonReport(lp, its, ss, cs, ps) ==
    [kind |-> "json",
     log_path |-> lp,
     iterations |-> Len(its),
     sessions |-> Len(ss),
     total_cost_usd |-> SumOver(cs, "estimated_cost_usd"),
     total_input_tokens |-> SumOver(cs, "input_tokens"),
     total_output_tokens |-> SumOver(cs, "output_tokens"),
     error_count |-> ErrorCount(its),
     per_session |->
        [k \in 1..ZipLen(its, cs) |->
            [session_id |-> its[k].session_id,
             iteration |-> its[k].number,
             is_error |-> its[k].is_error,
             cost_usd |-> cs[k].estimated_cost_usd,
             input_tokens |-> cs[k].input_tokens,
             output_tokens |-> cs[k].output_tokens,
             tool_calls |-> SumValues(cs[k].by_tool)]],
     patterns |-> ps]

LastN_First(its, n) ==
    IF n >= Len(its) THEN its ELSE SubSeq(its, 1, n)

\* iterations[-args.last:]
LastN(its, n) ==
    IF n >= Len(its) THEN its ELSE SubSeq(its, Len(its) - n + 1, Len(its))

\* What main prints on standard output
Printed(a, lp, its, ss, cs, ps) ==
    IF a.json_output THEN <<JsonReport(lp, its, ss, cs, ps)>>
    ELSE <<SummaryReport(lp, its, ss, cs, ps)>>
         \o (IF a.detailed
             THEN [k \in 1..ZipLen(ss, cs) |-> DetailedReport(ss[k], cs[k])]
             ELSE <<>>)

\* sys.exit(1) after a message on standard error
ExitWithError(message) ==
    /\ stderr' = Append(stderr, message)
    /\ exit_code' = 1
    /\ pc' = "exited"

\* "Find log file": log_path is the argument or the latest log
MainFindLog ==
    /\ pc = "main"
    /\ IF args.log_file = Null /\ ~disk.latest
       THEN /\ ExitWithError("Error: No ralph log files found in ~/.ralph/logs/")
            /\ UNCHANGED log_path
       ELSE /\ log_path' = IF args.log_file = Null THEN "latest" ELSE args.log_file
            /\ pc' = "found"
            /\ UNCHANGED <<stderr, exit_code>>
    /\ UNCHANGED <<ralphVars, logVars, runtime_dir, sessVars, findings, args, disk, it_index,
                   sessions, costs, patterns, detect_calls, stdout>>

\* log_path.exists(): the latest log was found on the disk, the given path
\* may name no file
LogExists == log_path = "latest" \/ disk.given

\* "if not log_path.exists()"
MainCheckLog ==
    /\ pc = "found"
    /\ IF ~LogExists
       THEN ExitWithError("Error: Log file not found")
       ELSE /\ pc' = "parse"
            /\ UNCHANGED <<stderr, exit_code>>
    /\ UNCHANGED <<ralphVars, logVars, runtime_dir, sessVars, findings, args, disk, log_path,
                   it_index, sessions, costs, patterns, detect_calls, stdout>>

NoIterations_Never(its) == FALSE

\* "if not iterations"
NoIterations(its) == its = <<>>

\* "Parse iterations": parse_ralph_log on the log, and the exit when it
\* returns no iteration
MainParseLog ==
    /\ pc = "parse"
    /\ LET st == ParseRalphLog(LogEntry(runtime_dir), disk.lines)
       IN /\ parses' = parses + 1
          /\ entry_dir' = runtime_dir
          /\ log' = disk.lines
          /\ iterations' = st.iterations
          /\ current_session_id' = st.current_session_id
          /\ current_timestamp' = st.current_timestamp
          /\ current_number' = st.current_number
          /\ current_total' = st.current_total
          /\ runtime_dir' = st.runtime_dir
          /\ IF NoIterations(st.iterations)
             THEN ExitWithError("Error: No iterations found")
             ELSE /\ pc' = "filter"
                  /\ UNCHANGED <<stderr, exit_code>>
    /\ UNCHANGED <<ralphVars, sessVars, findings, args, disk, log_path, it_index, sessions,
                   costs, patterns, detect_calls, stdout>>

\* "Apply --last filter"
MainFilter ==
    /\ pc = "filter"
    /\ iterations' = IF args.last > 0 THEN LastN(iterations, args.last) ELSE iterations
    /\ pc' = "loop"
    /\ UNCHANGED <<ralphVars, mainVars, parses, entry_dir, log, current_session_id,
                   current_timestamp, current_number, current_total, runtime_dir,
                   sessVars, findings>>

SkipIteration_Never(it) == FALSE

\* "if not iteration.session_id: continue"
SkipIteration(it) == it.session_id = ""

\* One turn of the loop over iterations: the iteration is skipped, or its
\* session is parsed and priced
MainIteration ==
    /\ pc = "loop"
    /\ it_index < Len(iterations)
    /\ it_index' = it_index + 1
    /\ LET iteration == iterations[it_index + 1]
       IN IF SkipIteration(iteration)
          THEN UNCHANGED <<sessVars, sessions, costs>>
          ELSE LET files == DirOf(disk, iteration.session_id)
                   s == ParseSession(runtime_dir, iteration.session_id, files)
               IN /\ session_id' = iteration.session_id
                  /\ fs' = [session_file |-> files.session_file,
                            agent_dir |-> files.agent_dir,
                            agent_files |-> files.agent_files]
                  /\ session' = s
                  /\ sessions' = Append(sessions, s)
                  /\ costs' = Append(costs, EstimateCost(s))
                  /\ UNCHANGED <<transcript, tool_index, agent_files, atranscripts,
                                 agent, agent_tool_index>>
    /\ UNCHANGED <<ralphVars, pc, logVars, runtime_dir, findings, args, disk, log_path,
                   patterns, detect_calls, stdout, stderr, exit_code>>

\* "Detect patterns", once the loop has ended
MainDetect ==
    /\ pc = "loop"
    /\ it_index = Len(iterations)
    /\ patterns' = DetectAllPatterns(sessions)
    /\ detect_calls' = detect_calls + 1
    /\ pc' = "report"
    /\ UNCHANGED <<ralphVars, logVars, runtime_dir, sessVars, findings, args, disk, log_path,
                   it_index, sessions, costs, stdout, stderr, exit_code>>

\* "Generate report", and the return of main
MainReport ==
    /\ pc = "report"
    /\ stdout' = stdout \o Printed(args, log_path, iterations, sessions, costs, patterns)
    /\ exit_code' = 0
    /\ pc' = "exited"
    /\ UNCHANGED <<ralphVars, logVars, runtime_dir, sessVars, findings, args, disk, log_path,
                   it_index, sessions, costs, patterns, detect_calls, stderr>>

----------------------------------------------------------------------------
(* The Ralph loop (src/ralph.py): the helpers that its main calls *)

INITIAL_BACKOFF_SECONDS == 15
MAX_BACKOFF_SECONDS == 240

RECURSIVE Pow2(_)
Pow2(n) == IF n = 0 THEN 1 ELSE 2 * Pow2(n - 1)

Min(a, b) == IF a < b THEN a ELSE b

CalculateBackoff_Linear(n) ==
    Min(INITIAL_BACKOFF_SECONDS * (n + 1), MAX_BACKOFF_SECONDS)

\* calculate_backoff
CalculateBackoff(n) ==
    Min(INITIAL_BACKOFF_SECONDS * Pow2(n), MAX_BACKOFF_SECONDS)

\* calculate_backoff(attempt) is called and returns
RunCalculateBackoff ==
    /\ pc = "backoff_call"
    /\ backoff' = CalculateBackoff(attempt)
    /\ pc' = "backoff"
    /\ UNCHANGED <<logVars, runtime_dir, sessVars, findings, mainVars, loopVars, logCallVars, attempt,
                   outputVars, ralph_log, console, hour, ampm, reset_tz, now,
                   sleep_secs, script>>

\* Seconds of a day, the timedelta(days=1) of calculate_sleep_seconds, and
\* the buffer it adds
SecondsPerDay == 86400
SleepBuffer == 60
MAX_RETRY_DURATION_SECONDS == 28800

\* A time zone of zoneinfo is the offset from UTC, in seconds, that holds
\* before the instant `at` and the offset that holds from it on.  Instants
\* are seconds since 2024-11-02 00:00 UTC; America/Los_Angeles leaves
\* daylight saving time on 2024-11-03 at 09:00 UTC, 02:00 on its clocks.
Zone(name) ==
    IF name = "America/Los_Angeles"
    THEN [before |-> -7 * 3600, after |-> -8 * 3600, at |-> SecondsPerDay + 9 * 3600]
    ELSE [before |-> 0, after |-> 0, at |-> 0]

\* A datetime: the day and the second of the day on the clocks of tz, the
\* microsecond, fold, and tzinfo (Null for a naive datetime)
Datetime(tz, day, sec, micro, fold) ==
    [tz |-> tz, day |-> day, sec |-> sec, micro |-> micro, fold |-> fold]

\* The reading of the clocks, in seconds, without its time zone
Wall(dt) == dt.day * SecondsPerDay + dt.sec

\* tzinfo.utcoffset(dt): a reading that is repeated or skipped takes the
\* offset before the change when fold is 0 and the offset after it when 1
UtcOffset(dt) ==
    LET z == Zone(dt.tz)
    IN IF Wall(dt) - z.before < z.at /\ Wall(dt) - z.after < z.at THEN z.before
       ELSE IF Wall(dt) - z.before >= z.at /\ Wall(dt) - z.after >= z.at THEN z.after
       ELSE IF dt.fold = 0 THEN z.before ELSE z.after

\* The instant of an aware datetime, in whole seconds
Timestamp(dt) == Wall(dt) - UtcOffset(dt)

\* The datetime of tz at the instant u and microsecond micro
FromTimestamp(tz, u, micro) ==
    LET z == Zone(tz)
        w == u + (IF u < z.at THEN z.before ELSE z.after)
    IN Datetime(tz, w \div SecondsPerDay, w % SecondsPerDay, micro,
                IF u >= z.at /\ w - z.before < z.at THEN 1 ELSE 0)

\* datetime.astimezone(tz)
AsTimezone(dt, tz) == FromTimestamp(tz, Timestamp(dt), dt.micro)

\* "Convert 12-hour to 24-hour format"
Hour24(h, half) ==
    IF half = "am" THEN (IF h = 12 THEN 0 ELSE h)
    ELSE (IF h = 12 THEN 12 ELSE h + 12)

\* The three ways now reaches the reset time zone: read from the clock
\* (now is None, the record holds the reading of the clock in UTC), a naive
\* datetime taken as one of the zone, an aware one converted
LocalNow(dt, tz) ==
    IF ~dt.given THEN AsTimezone([dt EXCEPT !.tz = "UTC"], tz)
    ELSE IF dt.tz = Null THEN [dt EXCEPT !.tz = tz]
    ELSE AsTimezone(dt, tz)

\* "If reset time has passed today, it's tomorrow".  Two datetimes of the
\* same tzinfo are compared by their clock readings.
ResetTime(local, h24) ==
    LET today == [local EXCEPT !.sec = h24 * 3600, !.micro = 0]
    IN IF Wall(today) <= Wall(local) THEN [today EXCEPT !.day = @ + 1] ELSE today

\* int((reset_time - now).total_seconds()): the difference of two datetimes
\* of the same tzinfo is the difference of their clock readings, and int
\* drops the fraction that the microseconds of now leave
WholeSecondsBetween(local, reset) ==
    Wall(reset) - Wall(local) - (IF local.micro > 0 THEN 1 ELSE 0)

\* calculate_sleep_seconds
CalculateSleepSeconds(h, half, tz, dt) ==
    LET local == LocalNow(dt, tz)
    IN WholeSecondsBetween(local, ResetTime(local, Hour24(h, half))) + SleepBuffer

\* calculate_sleep_seconds(hour, ampm, reset_tz, now) is called and returns
RunCalculateSleepSeconds ==
    /\ pc = "sleep_call"
    /\ sleep_secs' = CalculateSleepSeconds(hour, ampm, reset_tz, now)
    /\ pc' = "sleep"
    /\ UNCHANGED <<logVars, runtime_dir, sessVars, findings, mainVars, loopVars, logCallVars, attempt,
                   backoff, outputVars, ralph_log, console, hour, ampm, reset_tz,
                   now, script>>

Log_Rewrites(out, m, before) ==
    [console |-> Append(out.console, m),
     ralph_log |-> IF out.ralph_log.given
                   THEN [out.ralph_log EXCEPT
                           !.lines = IF before THEN <<<<>>, m>> ELSE <<m>>]
                   ELSE out.ralph_log]

\* log(msg, log_file, newline_before): print the message and, with a log
\* file, append it, after an empty line when newline_before is set.  Text
\* here is a tuple of tokens, "\n" and " " among them; a message is printed
\* and written with a line end after it, and the empty line is <<>>.
Log(out, m, before) ==
    [console |-> Append(out.console, m),
     ralph_log |-> IF out.ralph_log.given
                   THEN [out.ralph_log EXCEPT
                           !.lines = @ \o (IF before THEN <<<<>>, m>> ELSE <<m>>)]
                   ELSE out.ralph_log]

FETCH_FEEDBACK_SCRIPT == "scripts/fetch-feedback.py"

FeedbackPrefix == <<"Feedback:", " ">>

FetchFeedback_TimeoutEscapes(scr) ==
    IF ~scr.exists
    THEN [raised |-> FALSE,
          msg |-> FeedbackPrefix \o <<FETCH_FEEDBACK_SCRIPT, " not found, skipping">>]
    ELSE IF scr.outcome = "timeout"
    THEN [raised |-> TRUE, msg |-> <<>>]
    ELSE IF scr.outcome = "error"
    THEN [raised |-> FALSE, msg |-> FeedbackPrefix \o <<"fetch error: ", scr.error>>]
    ELSE IF scr.returncode = 0
    THEN [raised |-> FALSE, msg |-> FeedbackPrefix \o Strip(scr.stdout)]
    ELSE IF scr.returncode = 1
    THEN [raised |-> FALSE, msg |-> FeedbackPrefix \o <<"No new feedback">>]
    ELSE [raised |-> FALSE,
          msg |-> FeedbackPrefix
                  \o <<"fetch failed (exit ", ToString(scr.returncode), "): ">>
                  \o Strip(scr.stderr)]

\* fetch_feedback: the message it logs for what became of the script, the
\* outcome of subprocess.run being an input
FetchFeedback(scr) ==
    IF ~scr.exists
    THEN [raised |-> FALSE,
          msg |-> FeedbackPrefix \o <<FETCH_FEEDBACK_SCRIPT, " not found, skipping">>]
    ELSE IF scr.outcome = "timeout"
    THEN [raised |-> FALSE, msg |-> FeedbackPrefix \o <<"fetch timed out after 30s">>]
    ELSE IF scr.outcome = "error"
    THEN [raised |-> FALSE, msg |-> FeedbackPrefix \o <<"fetch error: ", scr.error>>]
    ELSE IF scr.returncode = 0
    THEN [raised |-> FALSE, msg |-> FeedbackPrefix \o Strip(scr.stdout)]
    ELSE IF scr.returncode = 1
    THEN [raised |-> FALSE, msg |-> FeedbackPrefix \o <<"No new feedback">>]
    ELSE [raised |-> FALSE,
          msg |-> FeedbackPrefix
                  \o <<"fetch failed (exit ", ToString(scr.returncode), "): ">>
                  \o Strip(scr.stderr)]

\* fetch_feedback(log_file, script_path) is called and ends
RunFetchFeedback ==
    /\ pc = "feedback"
    /\ LET r == FetchFeedback(script)
           out == Log([console |-> console, ralph_log |-> ralph_log], r.msg, FALSE)
       IN IF r.raised
          THEN pc' = "feedback_raised" /\ UNCHANGED <<console, ralph_log>>
          ELSE /\ pc' = "feedback_done"
               /\ console' = out.console
               /\ ralph_log' = out.ralph_log
    /\ UNCHANGED <<logVars, runtime_dir, sessVars, findings, mainVars, loopVars, logCallVars, attempt,
                   backoff, outputVars, hour, ampm, reset_tz, now, sleep_secs,
                   script>>

\* The messages given to log on its own
Messages == {<<"first">>, <<"second", " ", "message">>}

\* log(msg, log_file, newline_before) is called and returns; the arguments
\* of the next call are chosen
RunLog ==
    /\ \/ pc = "log_call"
       \/ pc = "output_done" /\ log_calls > 0
    /\ log_calls < MaxLogCalls
    /\ LET out == Log([console |-> console, ralph_log |-> ralph_log], msg,
                      newline_before)
       IN console' = out.console /\ ralph_log' = out.ralph_log
    /\ log_calls' = log_calls + 1
    /\ msg' \in Messages
    /\ newline_before' \in BOOLEAN
    /\ pc' = "log_call"
    /\ UNCHANGED <<logVars, runtime_dir, sessVars, findings, mainVars, loopVars, attempt,
                   backoff, outputVars, hour, ampm, reset_tz, now, sleep_secs,
                   script>>

\* '"type":"result","subtype":"success"'
Marker == "\"type\":\"result\",\"subtype\":\"success\""

SessionIdMember == "\"session_id\":\"abc\""
SessionIdCamelMember == "\"sessionId\":\"abc\""

\* line.rstrip("\n")
RECURSIVE RStripNewlines(_)
RStripNewlines(t) ==
    IF t # <<>> /\ t[Len(t)] = "\n" THEN RStripNewlines(SubSeq(t, 1, Len(t) - 1))
    ELSE t

\* json.loads(stripped): an object with the members between its braces, a
\* value that is no container (null), or JSONDecodeError
JsonLoads(t) ==
    IF t = <<"null">> THEN [kind |-> "null"]
    ELSE IF Len(t) >= 2 /\ t[1] = "{" /\ t[Len(t)] = "}"
    THEN [kind |-> "object",
          session_id |-> \E i \in 1..Len(t) : t[i] = SessionIdMember,
          sessionId |-> \E i \in 1..Len(t) : t[i] = SessionIdCamelMember]
    ELSE [kind |-> "error"]

\* The locals of process_claude_output, what it has printed and logged, and
\* whether an exception has left it
OutputState(res, printed, exc, con, lg) ==
    [result_line |-> res, session_id_printed |-> printed, raised |-> exc,
     console |-> con, ralph_log |-> lg]

\* "Print session_id once before the dots": data stays {} when the line is
\* no JSON, and the test "session_id" in data raises TypeError when the line
\* is JSON that holds no container
PrintProgress(st, stripped) ==
    IF st.session_id_printed THEN [st EXCEPT !.console = Append(@, <<".">>)]
    ELSE LET data == JsonLoads(stripped)
         IN IF data.kind = "null" THEN [st EXCEPT !.raised = TRUE]
            ELSE IF data.kind = "object" /\ data.session_id
            THEN [st EXCEPT !.console = @ \o <<<<"session_id: abc">>, <<".">>>>,
                            !.session_id_printed = TRUE]
            ELSE IF data.kind = "object" /\ data.sessionId
            THEN [st EXCEPT !.console = @ \o <<<<"sessionId: abc">>, <<".">>>>,
                            !.session_id_printed = TRUE]
            ELSE [st EXCEPT !.console = Append(@, <<".">>)]

\* "Track the result line"
TrackResult(st, stripped) ==
    IF ~st.raised /\ Contains(stripped, <<Marker>>)
    THEN [st EXCEPT !.result_line = stripped]
    ELSE st

\* The body of the loop over the lines of the output of claude
OutputStep(st, flag, line) ==
    LET stripped == RStripNewlines(line)
        logged == IF st.ralph_log.given
                  THEN [st EXCEPT !.ralph_log.lines = Append(@, stripped)]
                  ELSE st
        shown == IF flag THEN [logged EXCEPT !.console = Append(@, line)]
                 ELSE PrintProgress(logged, stripped)
    IN TrackResult(shown, stripped)

\* process_claude_output is called on the output after calls of log
CallProcessClaudeOutput ==
    /\ pc = "log_call"
    /\ log_calls > 0
    /\ line_index' = 0
    /\ result_line' = None
    /\ session_id_printed' = FALSE
    /\ pc' = "output"
    /\ UNCHANGED <<logVars, runtime_dir, sessVars, findings, mainVars, loopVars, logCallVars,
                   attempt, backoff, claude_output, verbose, raised, console,
                   ralph_log, hour, ampm, reset_tz, now, sleep_secs, script>>

\* One turn of the loop of process_claude_output
ProcessLine ==
    /\ pc = "output"
    /\ line_index < Len(claude_output)
    /\ LET st == OutputStep(OutputState(result_line, session_id_printed, raised,
                                        console, ralph_log),
                            verbose, claude_output[line_index + 1])
       IN /\ result_line' = st.result_line
          /\ session_id_printed' = st.session_id_printed
          /\ raised' = st.raised
          /\ console' = st.console
          /\ ralph_log' = st.ralph_log
          /\ pc' = IF st.raised THEN "output_raised" ELSE "output"
    /\ line_index' = line_index + 1
    /\ UNCHANGED <<logVars, runtime_dir, sessVars, findings, mainVars, loopVars, logCallVars, attempt,
                   backoff, claude_output, verbose, hour, ampm, reset_tz, now,
                   sleep_secs, script>>

\* The lines are exhausted: process_claude_output returns result_line
ReturnResultLine ==
    /\ pc = "output"
    /\ line_index = Len(claude_output)
    /\ console' = IF verbose THEN console ELSE Append(console, <<"\n">>)
    /\ pc' = "output_done"
    /\ UNCHANGED <<logVars, runtime_dir, sessVars, findings, mainVars, loopVars, logCallVars, attempt,
                   backoff, outputVars, ralph_log, hour, ampm, reset_tz, now,
                   sleep_secs, script>>

\* No function of ralph.py has been called
IdleRalph ==
    /\ attempt = 0
    /\ backoff = 0
    /\ claude_output = <<>>
    /\ verbose = FALSE
    /\ line_index = 0
    /\ result_line = None
    /\ session_id_printed = FALSE
    /\ raised = FALSE
    /\ console = <<>>
    /\ ralph_log = [given |-> FALSE, lines |-> <<>>]
    /\ hour = 12
    /\ ampm = "am"
    /\ reset_tz = "UTC"
    /\ now = [given |-> FALSE, tz |-> Null, day |-> 0, sec |-> 0, micro |-> 0,
              fold |-> 0]
    /\ sleep_secs = 0
    /\ script = [exists |-> FALSE]
    /\ msg = <<>>
    /\ newline_before = FALSE
    /\ log_calls = 0

----------------------------------------------------------------------------
(* src/ralph.py: the control loop of main *)

\* int(s) of a text of digits
IntOf(s) == CHOOSE n \in 0..99 : ToString(n) = s

\* str.lower(), on the words of the messages that hold capitals
Lower(w) ==
    CASE w = "Error" -> "error"
      [] w = "Overloaded" -> "overloaded"
      [] w = "Resets" -> "resets"
      [] w = "AM" -> "am"
      [] w = "PM" -> "pm"
      [] w = "APIStatusError" -> "apistatuserror"
      [] OTHER -> w

Digits12 == {ToString(n) : n \in 0..99}

\* The places of text where the pattern of parse_rate_limit_reset matches:
\* "resets", whitespace, one or two digits, am or pm, whitespace, "(", a
\* text without ")", ")"
ResetMatches(text) ==
    {k \in 1..(Len(text) - 7) :
        /\ Lower(text[k]) = "resets"
        /\ text[k + 1] \in Whitespace
        /\ text[k + 2] \in Digits12
        /\ Lower(text[k + 3]) \in {"am", "pm"}
        /\ text[k + 4] \in Whitespace
        /\ text[k + 5] = "("
        /\ text[k + 6] \notin {"(", ")"}
        /\ text[k + 7] = ")"}

\* parse_rate_limit_reset(result): (hour, am/pm, timezone) of the first
\* match, or None
ParseRateLimitReset(text) ==
    IF ResetMatches(text) = {} THEN [found |-> FALSE]
    ELSE LET k == CHOOSE j \in ResetMatches(text) :
                      \A h \in ResetMatches(text) : j <= h
         IN [found |-> TRUE, hour |-> IntOf(text[k + 2]),
             ampm |-> Lower(text[k + 3]), tz |-> text[k + 6]]

\* Words that the patterns of is_api_server_error look for
Status5xx == {"500", "502", "503", "529"}
StatusCodeWords == {"status_code", "status code", "statuscode"}
ServerWords ==
    {"overloaded", "internal server error", "internal_server_error",
     "internalservererror", "service unavailable", "service_unavailable",
     "serviceunavailable"}

IsApiServerError_Never(text) == FALSE

\* is_api_server_error(result): one of the seven patterns is found in the
\* lowered text
IsApiServerError(text) ==
    LET low == [k \in 1..Len(text) |-> Lower(text[k])]
        n == Len(low)
    IN \/ \E k \in 1..(n - 2) :
             /\ low[k] \in StatusCodeWords
             /\ low[k + 1] \in {":", " "}
             /\ low[k + 2] \in Status5xx
       \/ \E k \in 1..n : \E j \in (k + 1)..n :
             low[k] \in Status5xx /\ low[j] = "error"
       \/ \E k \in 1..n : \E j \in (k + 1)..n :
             low[k] = "error" /\ low[j] \in Status5xx
       \/ \E k \in 1..n : low[k] \in ServerWords
       \/ \E k \in 1..n : \E j \in (k + 1)..n :
             low[k] = "apistatuserror" /\ low[j] \in Status5xx

\* Members of the records that claude prints
InitMember == "\"type\":\"system\",\"subtype\":\"init\""
CwdMember == "\"cwd\":\"/c\""
IsErrorTrue == "\"is_error\":true"
IsErrorFalse == "\"is_error\":false"
ResultKey == "\"result\":\""
ResultEnd == "\""

\* json.loads(last_line) in main: the members of an object that main reads,
\* or JSONDecodeError
LoadLastLine(t) ==
    IF Len(t) >= 2 /\ t[1] = "{" /\ t[Len(t)] = "}"
    THEN LET keys == {k \in 1..Len(t) : t[k] = ResultKey}
         IN IF keys = {}
            THEN [kind |-> "object", has_result |-> FALSE, result |-> <<>>,
                  is_error |-> \E k \in 1..Len(t) : t[k] = IsErrorTrue]
            ELSE LET k == CHOOSE j \in keys : \A h \in keys : j <= h
                     e == CHOOSE j \in (k + 1)..Len(t) :
                              /\ t[j] = ResultEnd
                              /\ \A h \in (k + 1)..(j - 1) : t[h] # ResultEnd
                 IN [kind |-> "object", has_result |-> TRUE,
                     result |-> SubSeq(t, k + 1, e - 1),
                     is_error |-> \E h \in 1..Len(t) : t[h] = IsErrorTrue]
    ELSE [kind |-> "error"]

\* What the result of a run can say
RateLimitText ==
    <<"You've hit your limit", " · ", "resets", " ", "2", "am", " ", "(",
      "America/Los_Angeles", ")">>
ServerErrorText == <<"API Error: ", "529", " ", "Overloaded">>
BothText ==
    <<"Overloaded", " · ", "Resets", " ", "2", "am", " ", "(",
      "America/Los_Angeles", ")">>
OtherErrorText == <<"Credit balance is too low">>
ErrorTexts == {RateLimitText, ServerErrorText, BothText, OtherErrorText}

\* The lines that claude prints: the init record; then no result line, one
\* that is cut short, one of a success or one of an error
InitLine == <<"{", InitMember, ",", SessionIdMember, ",", CwdMember, "}", "\n">>
UnparsableLine == <<"{", Marker, "\n">>
SuccessLine ==
    <<"{", Marker, ",", IsErrorFalse, ",", ResultKey, "done", ResultEnd, "}", "\n">>
ErrorLine(text) ==
    <<"{", Marker, ",", IsErrorTrue, ",", ResultKey>> \o text
    \o <<ResultEnd, "}", "\n">>
RunOutputs ==
    {<<InitLine>>}
    \cup {<<InitLine, l>> :
             l \in {UnparsableLine, SuccessLine} \cup {ErrorLine(t) : t \in ErrorTexts}}

\* The loop of process_claude_output over all the lines
RECURSIVE OutputLoop(_, _, _)
OutputLoop(st, flag, lines) ==
    IF lines = <<>> \/ st.raised THEN st
    ELSE OutputLoop(OutputStep(st, flag, Head(lines)), flag, Tail(lines))

\* run_claude(prompt_content, verbose, log_file): the output of the process
\* goes through process_claude_output, which returns the result line; the
\* process exits with code 0 and writes nothing to stderr
RunClaude(lines, flag, con, lg) ==
    LET st == OutputLoop(OutputState(None, FALSE, FALSE, con, lg), flag, lines)
    IN [last_line |-> st.result_line,
        console |-> IF flag THEN st.console ELSE Append(st.console, <<"\n">>),
        ralph_log |-> st.ralph_log]

\* get_timestamp(), of which the model keeps the epoch time
GetTimestamp(c) == ToString(c)

\* datetime.now(tz) when the clock shows c
ClockReading(c) ==
    [given |-> FALSE, tz |-> Null, day |-> c \div SecondsPerDay,
     sec |-> c % SecondsPerDay, micro |-> 0, fold |-> 0]

\* What the loop has printed and logged
Out == [console |-> console, ralph_log |-> ralph_log]

\* One run of claude that ended at time t with the result line, or one
\* time.sleep of s seconds begun at time t, in pass n
RunEffect(n, again, line, t) ==
    [kind |-> "run", pass |-> n, retry |-> again, line |-> line, secs |-> 0,
     at |-> t]
SleepEffect(n, s, t) ==
    [kind |-> "sleep", pass |-> n, retry |-> FALSE, line |-> None, secs |-> s,
     at |-> t]

\* STOP_RALPH appears before the for looks for it
CreateStopFile ==
    /\ pc = "for"
    /\ loop_i < max_iterations
    /\ ~stop_marker
    /\ stop_marker' = TRUE
    /\ UNCHANGED <<logVars, runtime_dir, sessVars, findings, mainVars, logCallVars,
                   attempt, backoff, outputVars, console, ralph_log, hour, ampm,
                   reset_tz, now, sleep_secs, script, pc, loop_i, max_iterations,
                   prompt_file, clock, retry_start, last_line, effects>>

\* range(max_iterations) is exhausted: the else of the for
ForElse ==
    /\ pc = "for"
    /\ loop_i >= max_iterations
    /\ LET out == Log(Out, <<"Completed ", ToString(max_iterations), " iterations">>,
                      FALSE)
       IN console' = out.console /\ ralph_log' = out.ralph_log
    /\ pc' = "finished"
    /\ UNCHANGED <<logVars, runtime_dir, sessVars, findings, mainVars, logCallVars,
                   attempt, backoff, outputVars, hour, ampm, reset_tz, now,
                   sleep_secs, script, loop_i, max_iterations, stop_marker,
                   prompt_file, clock, retry_start, last_line, effects>>

\* "Check if we should stop": the stop file exists, break
StopFound ==
    /\ pc = "for"
    /\ loop_i < max_iterations
    /\ stop_marker
    /\ LET out == Log(Out, <<"STOP_RALPH", " found, stopping after ", ToString(loop_i),
                             " iteration(s)">>, FALSE)
       IN console' = out.console /\ ralph_log' = out.ralph_log
    /\ pc' = "finished"
    /\ UNCHANGED <<logVars, runtime_dir, sessVars, findings, mainVars, logCallVars,
                   attempt, backoff, outputVars, hour, ampm, reset_tz, now,
                   sleep_secs, script, loop_i, max_iterations, stop_marker,
                   prompt_file, clock, retry_start, last_line, effects>>

BeginPass_IgnoresStop ==
    /\ pc = "for"
    /\ loop_i < max_iterations
    /\ LET header == Log(Out, <<"=== Iteration ", ToString(loop_i + 1), "/",
                                ToString(max_iterations), " === ",
                                GetTimestamp(clock)>>, TRUE)
           out == Log(header, FetchFeedback(script).msg, FALSE)
       IN console' = out.console /\ ralph_log' = out.ralph_log
    /\ pc' = IF prompt_file THEN "run" ELSE "exit_1"
    /\ UNCHANGED <<logVars, runtime_dir, sessVars, findings, mainVars, logCallVars,
                   attempt, backoff, outputVars, hour, ampm, reset_tz, now,
                   sleep_secs, script, loop_i, max_iterations, stop_marker,
                   prompt_file, clock, retry_start, last_line, effects>>

\* A pass begins: the header, fetch_feedback, and the prompt file is read
BeginPass ==
    /\ pc = "for"
    /\ loop_i < max_iterations
    /\ ~stop_marker
    /\ LET header == Log(Out, <<"=== Iteration ", ToString(loop_i + 1), "/",
                                ToString(max_iterations), " === ",
                                GetTimestamp(clock)>>, TRUE)
           out == Log(header, FetchFeedback(script).msg, FALSE)
       IN console' = out.console /\ ralph_log' = out.ralph_log
    /\ pc' = IF prompt_file THEN "run" ELSE "exit_1"
    /\ UNCHANGED <<logVars, runtime_dir, sessVars, findings, mainVars, logCallVars,
                   attempt, backoff, outputVars, hour, ampm, reset_tz, now,
                   sleep_secs, script, loop_i, max_iterations, stop_marker,
                   prompt_file, clock, retry_start, last_line, effects>>

\* What the first run of a pass leads to: the words after the run, the
\* sleep, and where the loop goes
AfterFirstRun(run, c) ==
    LET out == [console |-> run.console, ralph_log |-> run.ralph_log]
        data == IF run.last_line = None
                THEN [kind |-> "object", has_result |-> FALSE, result |-> <<>>,
                      is_error |-> FALSE]
                ELSE LoadLastLine(run.last_line)
    IN IF data.kind = "error"
       THEN [out |-> Log(out, <<"Last line failed to parse as JSON: ">>
                                \o run.last_line, FALSE),
             next |-> "for", slept |-> 0, reset |-> [found |-> FALSE]]
       ELSE IF ~data.has_result
       THEN [out |-> Log(out, <<"Last line missing \"result\": ">>
                                \o run.last_line, FALSE),
             next |-> "for", slept |-> 0, reset |-> [found |-> FALSE]]
       ELSE LET shown == IF verbose THEN out
                         ELSE [out EXCEPT !.console =
                                   Append(@, <<"Result: ">> \o data.result)]
                parsed == ParseRateLimitReset(data.result)
            IN IF ~data.is_error
               THEN [out |-> shown, next |-> "for", slept |-> 0,
                     reset |-> [found |-> FALSE]]
               ELSE IF parsed.found
               THEN LET secs == CalculateSleepSeconds(parsed.hour, parsed.ampm,
                                                      parsed.tz, ClockReading(c))
                    IN [out |-> Log(shown,
                                    <<"Rate limited. Sleeping ",
                                      ToString(secs \div 60), " minutes until ",
                                      ToString(parsed.hour), parsed.ampm, " (",
                                      parsed.tz, ")">>, FALSE),
                        next |-> "for", slept |-> secs, reset |-> parsed]
               ELSE IF IsApiServerError(data.result)
               THEN [out |-> shown, next |-> "retry", slept |-> 0,
                     reset |-> [found |-> FALSE]]
               ELSE [out |-> shown, next |-> "for", slept |-> 0,
                     reset |-> [found |-> FALSE]]

\* run_claude of a pass, and the rest of the body of the for up to the
\* continue, the end of the body or the entry into the retry loop
FirstRun ==
    /\ pc = "run"
    /\ \E lines \in RunOutputs :
         LET run == RunClaude(lines, verbose, console, ralph_log)
             c == clock + RunSeconds
             after == AfterFirstRun(run, c)
         IN /\ last_line' = run.last_line
            /\ console' = after.out.console
            /\ ralph_log' = after.out.ralph_log
            /\ effects' = effects \o <<RunEffect(loop_i + 1, FALSE, run.last_line, c)>>
                          \o (IF after.slept > 0
                              THEN <<SleepEffect(loop_i + 1, after.slept, c)>>
                              ELSE <<>>)
            /\ clock' = c + after.slept
            /\ sleep_secs' = IF after.slept > 0 THEN after.slept ELSE sleep_secs
            /\ hour' = IF after.reset.found THEN after.reset.hour ELSE hour
            /\ ampm' = IF after.reset.found THEN after.reset.ampm ELSE ampm
            /\ reset_tz' = IF after.reset.found THEN after.reset.tz ELSE reset_tz
            /\ pc' = after.next
            /\ loop_i' = IF after.next = "for" THEN loop_i + 1 ELSE loop_i
            /\ retry_start' = IF after.next = "retry" THEN c ELSE retry_start
            /\ attempt' = IF after.next = "retry" THEN 0 ELSE attempt
    /\ UNCHANGED <<logVars, runtime_dir, sessVars, findings, mainVars, logCallVars,
                   backoff, outputVars, now, script, max_iterations, stop_marker,
                   prompt_file>>

\* The claude command is not found: FileNotFoundError, caught around the
\* first run of a pass and not in the retry loop; the process exits with 1
\* either way
ClaudeNotFound ==
    /\ pc \in {"run", "retry"}
    /\ pc' = "exit_1"
    /\ UNCHANGED <<logVars, runtime_dir, sessVars, findings, mainVars, logCallVars,
                   attempt, backoff, outputVars, console, ralph_log, hour, ampm,
                   reset_tz, now, sleep_secs, script, loop_i, max_iterations,
                   stop_marker, prompt_file, clock, retry_start, last_line,
                   effects>>

\* What a retry leads to: the words after it and whether the while goes on
AfterRetry(run) ==
    LET out == [console |-> run.console, ralph_log |-> run.ralph_log]
        data == IF run.last_line = None THEN [kind |-> "error"]
                ELSE LoadLastLine(run.last_line)
    IN IF data.kind = "error" THEN [out |-> out, again |-> TRUE]
       ELSE IF ~data.is_error
       THEN [out |-> Log(out, <<"API error resolved, continuing">>, FALSE),
             again |-> FALSE]
       ELSE IF ~IsApiServerError(data.result)
       THEN [out |-> Log(out, <<"Different error: ">> \o data.result, FALSE),
             again |-> FALSE]
       ELSE [out |-> out, again |-> TRUE]

RetryStep_ParseErrorBreaks ==
    /\ pc = "retry"
    /\ backoff' = CalculateBackoff(attempt)
    /\ IF (clock - retry_start) + CalculateBackoff(attempt) > MAX_RETRY_DURATION_SECONDS
       THEN /\ LET out == Log(Out, <<"API error retry exceeded ",
                                     ToString(MAX_RETRY_DURATION_SECONDS \div 3600),
                                     " hours, giving up">>, FALSE)
               IN console' = out.console /\ ralph_log' = out.ralph_log
            /\ pc' = "for"
            /\ loop_i' = loop_i + 1
            /\ UNCHANGED <<attempt, clock, last_line, effects>>
       ELSE \E lines \in RunOutputs :
              LET told == Log(Out, <<"API server error (attempt ",
                                     ToString(attempt + 1), "). Retrying in ",
                                     ToString(CalculateBackoff(attempt)), "s...">>,
                              FALSE)
                  run == RunClaude(lines, verbose, told.console, told.ralph_log)
                  after == AfterRetry(run)
                  again == /\ after.again
                           /\ \/ run.last_line = None
                              \/ LoadLastLine(run.last_line).kind # "error"
              IN /\ last_line' = run.last_line
                 /\ console' = after.out.console
                 /\ ralph_log' = after.out.ralph_log
                 /\ effects' = effects
                               \o <<SleepEffect(loop_i + 1, CalculateBackoff(attempt),
                                                clock),
                                    RunEffect(loop_i + 1, TRUE, run.last_line,
                                              clock + CalculateBackoff(attempt)
                                              + RunSeconds)>>
                 /\ clock' = clock + CalculateBackoff(attempt) + RunSeconds
                 /\ attempt' = IF again THEN attempt + 1 ELSE attempt
                 /\ pc' = IF again THEN "retry" ELSE "for"
                 /\ loop_i' = IF again THEN loop_i ELSE loop_i + 1
    /\ UNCHANGED <<logVars, runtime_dir, sessVars, findings, mainVars, logCallVars,
                   outputVars, hour, ampm, reset_tz, now, sleep_secs, script,
                   max_iterations, stop_marker, prompt_file, retry_start>>

\* One turn of the while of the retry loop: give up when the time already
\* spent and the next backoff pass MAX_RETRY_DURATION_SECONDS, else sleep,
\* run claude again, and break or count the attempt
RetryStep ==
    /\ pc = "retry"
    /\ backoff' = CalculateBackoff(attempt)
    /\ IF (clock - retry_start) + CalculateBackoff(attempt) > MAX_RETRY_DURATION_SECONDS
       THEN /\ LET out == Log(Out, <<"API error retry exceeded ",
                                     ToString(MAX_RETRY_DURATION_SECONDS \div 3600),
                                     " hours, giving up">>, FALSE)
               IN console' = out.console /\ ralph_log' = out.ralph_log
            /\ pc' = "for"
            /\ loop_i' = loop_i + 1
            /\ UNCHANGED <<attempt, clock, last_line, effects>>
       ELSE \E lines \in RunOutputs :
              LET told == Log(Out, <<"API server error (attempt ",
                                     ToString(attempt + 1), "). Retrying in ",
                                     ToString(CalculateBackoff(attempt)), "s...">>,
                              FALSE)
                  run == RunClaude(lines, verbose, told.console, told.ralph_log)
                  after == AfterRetry(run)
              IN /\ last_line' = run.last_line
                 /\ console' = after.out.console
                 /\ ralph_log' = after.out.ralph_log
                 /\ effects' = effects
                               \o <<SleepEffect(loop_i + 1, CalculateBackoff(attempt),
                                                clock),
                                    RunEffect(loop_i + 1, TRUE, run.last_line,
                                              clock + CalculateBackoff(attempt)
                                              + RunSeconds)>>
                 /\ clock' = clock + CalculateBackoff(attempt) + RunSeconds
                 /\ attempt' = IF after.again THEN attempt + 1 ELSE attempt
                 /\ pc' = IF after.again THEN "retry" ELSE "for"
                 /\ loop_i' = IF after.again THEN loop_i ELSE loop_i + 1
    /\ UNCHANGED <<logVars, runtime_dir, sessVars, findings, mainVars, logCallVars,
                   outputVars, hour, ampm, reset_tz, now, sleep_secs, script,
                   max_iterations, stop_marker, prompt_file, retry_start>>

\* main of ralph.py has not been started
IdleLoop ==
    /\ loop_i = 0
    /\ max_iterations = 0
    /\ stop_marker = FALSE
    /\ prompt_file = FALSE
    /\ clock = 0
    /\ retry_start = 0
    /\ last_line = None
    /\ effects = <<>>

----------------------------------------------------------------------------
(* Specifications *)

IdleLog ==
    /\ parses = 0
    /\ entry_dir = None
    /\ log = <<>>
    /\ iterations = <<>>
    /\ current_session_id = ""
    /\ current_timestamp = ""
    /\ current_number = 0
    /\ current_total = 0

IdleSession ==
    /\ fs = [session_file |-> FALSE, agent_dir |-> FALSE, agent_files |-> {}]
    /\ session_id = ""
    /\ transcript = <<>>
    /\ session = EmptySession("")
    /\ tool_index = 0
    /\ agent_files = <<>>
    /\ atranscripts = <<>>
    /\ agent = AgentSession("", "unknown")
    /\ agent_tool_index = 0

\* A disk without log and without session directory
NoDisk ==
    [given |-> FALSE, latest |-> FALSE, lines |-> <<>>,
     dirs |-> [sid \in SessionIds |-> MissingDir]]

\* main has not run
IdleMain ==
    /\ args = [log_file |-> Null, last |-> 0, json_output |-> FALSE, detailed |-> FALSE]
    /\ disk = NoDisk
    /\ log_path = Null
    /\ it_index = 0
    /\ sessions = <<>>
    /\ costs = <<>>
    /\ patterns = <<>>
    /\ detect_calls = 0
    /\ stdout = <<>>
    /\ stderr = <<>>
    /\ exit_code = -1

\* A parser just constructed (LogParser.__init__), about to read a log
InitLog ==
    /\ pc = "idle"
    /\ runtime_dir = None
    /\ IdleLog
    /\ IdleRalph
    /\ IdleLoop
    /\ IdleSession
    /\ findings = <<>>
    /\ IdleMain

\* The layouts of the session directory: no transcript (with and without an
\* agent directory), a transcript alone, a transcript with an empty agent
\* directory, with one agent file and with two
FileSystems ==
    {[session_file |-> FALSE, agent_dir |-> FALSE, agent_files |-> {}],
     [session_file |-> FALSE, agent_dir |-> TRUE, agent_files |-> {"a1"}],
     [session_file |-> TRUE, agent_dir |-> FALSE, agent_files |-> {}],
     [session_file |-> TRUE, agent_dir |-> TRUE, agent_files |-> {}],
     [session_file |-> TRUE, agent_dir |-> TRUE, agent_files |-> {"a1"}],
     [session_file |-> TRUE, agent_dir |-> TRUE, agent_files |-> {"a2", "a1"}]}

\* A parser that has read a log (or none), about to parse a session
InitSession ==
    /\ pc = "start"
    /\ runtime_dir \in {None, CwdToRuntimeDir(<<"/", "a", "_", "b">>)}
    /\ IdleLog
    /\ IdleRalph
    /\ IdleLoop
    /\ fs \in FileSystems
    /\ session_id \in SessionIds
    /\ transcript = <<>>
    /\ session = EmptySession("")
    /\ tool_index = 0
    /\ agent_files = <<>>
    /\ atranscripts = <<>>
    /\ agent = AgentSession("", "unknown")
    /\ agent_tool_index = 0
    /\ findings = <<>>
    /\ IdleMain

Init == InitLog \/ InitSession

NextSession ==
    \/ ParseSessionMissing
    \/ OpenSessionFile
    \/ ReadAssistant
    \/ ReadOtherType
    \/ ReadSessionMalformed
    \/ EndSessionFile
    \/ BeginAgentFile
    \/ ReadAgentInit
    \/ ReadAgentAssistant
    \/ ReadAgentOtherType
    \/ ReadAgentMalformed
    \/ EndAgentFile
    \/ ReturnSession

NextLog ==
    \/ BeginParseRalphLog
    \/ ReadHeader
    \/ ReadInitRecord
    \/ ReadResultRecord
    \/ ReadOtherRecord
    \/ ReadResultText
    \/ ReadMalformed
    \/ EndParseRalphLog

Next == NextLog \/ NextSession

Spec == Init /\ [][Next]_vars

\* A session that parse_session has returned, about to be given to a detector
InitDetect ==
    /\ pc = "detect"
    /\ runtime_dir = CwdToRuntimeDir(<<"/", "c">>)
    /\ IdleLog
    /\ IdleRalph
    /\ IdleLoop
    /\ session_id = "s1"
    /\ \E files \in DetectFiles :
         /\ fs = [session_file |-> files.session_file, agent_dir |-> files.agent_dir,
                  agent_files |-> files.agent_files]
         /\ transcript = files.lines
         /\ atranscripts = [k \in 1..Cardinality(files.agent_files) |->
                               files.agent_lines[SortedFiles(files.agent_files)[k]]]
         /\ session = ParseSession(runtime_dir, session_id, files)
         /\ tool_index =
                ParseSessionLines(SessState(EmptySession(session_id), 0),
                                  files.lines).tool_index
    /\ agent_files = <<>>
    /\ agent = AgentSession("", "unknown")
    /\ agent_tool_index = 0
    /\ findings = <<>>
    /\ IdleMain

NextDetect ==
    \/ RunFindRedundantReads
    \/ RunFindLateTestRuns
    \/ RunFindAgentOverhead
    \/ RunFindLargeFileReads

SpecDetect == InitDetect /\ [][NextDetect]_vars

\* A batch of sessions that parse_session has returned, about to be given to
\* detect_all_patterns
InitPatterns ==
    /\ pc = "detect_all"
    /\ runtime_dir = CwdToRuntimeDir(<<"/", "c">>)
    /\ IdleLog
    /\ IdleRalph
    /\ IdleLoop
    /\ IdleSession
    /\ findings = <<>>
    /\ args = [log_file |-> Null, last |-> 0, json_output |-> FALSE, detailed |-> FALSE]
    /\ disk = NoDisk
    /\ log_path = Null
    /\ it_index = 0
    /\ sessions \in SeqsUpTo({ParseSession(runtime_dir, "s1", files) :
                                 files \in PatternFiles}, MaxSessions)
    /\ costs = <<>>
    /\ patterns = <<>>
    /\ detect_calls = 0
    /\ stdout = <<>>
    /\ stderr = <<>>
    /\ exit_code = -1

NextPatterns == RunDetectAllPatterns

SpecPatterns == InitPatterns /\ [][NextPatterns]_vars

\* The command lines of main: a log file given or not, --last, and one of
\* the three forms of output
CommandLines ==
    {[log_file |-> f, last |-> n, json_output |-> j, detailed |-> d] :
        f \in {Null, "given"}, n \in 0..MaxLast,
        <<j, d>> \in {<<FALSE, FALSE>>, <<FALSE, TRUE>>, <<TRUE, FALSE>>}}

\* The disks main can run on: the log it would analyse is missing, or holds
\* some lines
Disks(a) ==
    {NoDisk}
    \cup {[given |-> a.log_file # Null, latest |-> a.log_file = Null, lines |-> ls,
            dirs |-> ds] :
              ls \in SeqsUpTo(MainLogLines, MaxLogLines), ds \in MainDirs}

\* main is called
InitMain ==
    /\ pc = "main"
    /\ runtime_dir = None
    /\ IdleLog
    /\ IdleRalph
    /\ IdleLoop
    /\ IdleSession
    /\ findings = <<>>
    /\ args \in CommandLines
    /\ disk \in Disks(args)
    /\ log_path = Null
    /\ it_index = 0
    /\ sessions = <<>>
    /\ costs = <<>>
    /\ patterns = <<>>
    /\ detect_calls = 0
    /\ stdout = <<>>
    /\ stderr = <<>>
    /\ exit_code = -1

NextMain ==
    \/ MainFindLog
    \/ MainCheckLog
    \/ MainParseLog
    \/ MainFilter
    \/ MainIteration
    \/ MainDetect
    \/ MainReport

SpecMain == InitMain /\ [][NextMain]_vars

\* A session that parse_session has returned, about to be given to estimate_cost
InitCost ==
    /\ pc = "cost"
    /\ runtime_dir = CwdToRuntimeDir(<<"/", "c">>)
    /\ IdleLog
    /\ IdleRalph
    /\ IdleLoop
    /\ session_id = "s1"
    /\ \E files \in CostFiles :
         /\ fs = [session_file |-> files.session_file, agent_dir |-> files.agent_dir,
                  agent_files |-> files.agent_files]
         /\ transcript = files.lines
         /\ atranscripts = [k \in 1..Cardinality(files.agent_files) |->
                               files.agent_lines[SortedFiles(files.agent_files)[k]]]
         /\ session = ParseSession(runtime_dir, session_id, files)
         /\ tool_index =
                ParseSessionLines(SessState(EmptySession(session_id), 0),
                                  files.lines).tool_index
    /\ agent_files = <<>>
    /\ agent = AgentSession("", "unknown")
    /\ agent_tool_index = 0
    /\ findings = <<>>
    /\ IdleMain

NextCost ==
    \/ RunEstimateCost
    \/ DoubleTokens

SpecCost == InitCost /\ [][NextCost]_vars

\* The attempts of a retry loop that calculate_backoff is asked about
Attempts == 0..MaxAttempt

\* Reset hours as parse_rate_limit_reset reads them from "resets 2am (...)"
Hours == 1..12

TimeZones == {"UTC", "America/Los_Angeles"}

At(tz, day, h, m, s, micro, fold) ==
    [given |-> TRUE, tz |-> tz, day |-> day, sec |-> h * 3600 + m * 60 + s,
     micro |-> micro, fold |-> fold]

\* Values of now: aware datetimes of both zones around the end of daylight
\* saving time, naive datetimes, and None with the reading of the clock
NowValues ==
    {At("UTC", 1, 7, 30, 0, 0, 0), At("UTC", 1, 8, 30, 0, 0, 0),
     At("UTC", 1, 9, 30, 0, 0, 0), At("UTC", 1, 10, 0, 0, 0, 0),
     At("UTC", 1, 17, 59, 59, 500000, 0),
     At("America/Los_Angeles", 0, 12, 0, 0, 0, 0),
     At("America/Los_Angeles", 1, 0, 30, 0, 0, 0),
     At("America/Los_Angeles", 1, 1, 30, 0, 0, 1),
     At("America/Los_Angeles", 1, 2, 0, 0, 0, 0),
     At(Null, 1, 3, 0, 0, 0, 0), At(Null, 0, 23, 59, 59, 500000, 0),
     [At(Null, 1, 8, 30, 0, 0, 0) EXCEPT !.given = FALSE]}

\* Lines of the output of claude: text that is no JSON, JSON that is no
\* object, objects with a session id under either name, and result lines
\* with and without a line end
OutputLines ==
    {<<"not json", "\n">>,
     <<"null", "\n">>,
     <<"{", SessionIdMember, "}", "\n">>,
     <<"{", SessionIdCamelMember, "}", "\n">>,
     <<"{", Marker, "}", "\n">>,
     <<"{", Marker, ",", SessionIdMember, "}">>}

\* What can become of the feedback script
Scripts ==
    {[exists |-> FALSE],
     [exists |-> TRUE, outcome |-> "timeout"],
     [exists |-> TRUE, outcome |-> "error", error |-> "Permission denied"]}
    \cup {[exists |-> TRUE, outcome |-> "exit", returncode |-> c, stdout |-> o,
           stderr |-> e] :
            c \in {0, 1, 2, -9},
            o \in {<<>>, <<"2 new">>, <<" ", "2 new", "\n", "saved", "\n">>},
            e \in {<<>>, <<"boom", "\n">>}}

LogFiles == {[given |-> g, lines |-> <<>>] : g \in BOOLEAN}

\* A function of ralph.py is about to be called
InitRalph ==
    /\ pc \in {"backoff_call", "sleep_call", "output", "feedback", "log_call"}
    /\ runtime_dir = None
    /\ IdleLog
    /\ IdleSession
    /\ findings = <<>>
    /\ IdleMain
    /\ IdleLoop
    /\ attempt \in IF pc = "backoff_call" THEN Attempts ELSE {0}
    /\ backoff = 0
    /\ claude_output \in IF pc = "output" THEN SeqsUpTo(OutputLines, MaxOutputLines)
                         ELSE IF pc = "log_call" THEN {<<l>> : l \in OutputLines}
                         ELSE {<<>>}
    /\ verbose \in IF pc \in {"output", "log_call"} THEN BOOLEAN ELSE {FALSE}
    /\ line_index = 0
    /\ result_line = None
    /\ session_id_printed = FALSE
    /\ raised = FALSE
    /\ console = <<>>
    /\ ralph_log \in IF pc \in {"output", "feedback", "log_call"} THEN LogFiles
                     ELSE {[given |-> FALSE, lines |-> <<>>]}
    /\ hour \in IF pc = "sleep_call" THEN Hours ELSE {12}
    /\ ampm \in IF pc = "sleep_call" THEN {"am", "pm"} ELSE {"am"}
    /\ reset_tz \in IF pc = "sleep_call" THEN TimeZones ELSE {"UTC"}
    /\ now \in IF pc = "sleep_call" THEN NowValues
               ELSE {[At(Null, 0, 0, 0, 0, 0, 0) EXCEPT !.given = FALSE]}
    /\ sleep_secs = 0
    /\ script \in IF pc = "feedback" THEN Scripts ELSE {[exists |-> FALSE]}
    /\ msg \in IF pc = "log_call" THEN Messages ELSE {<<"first">>}
    /\ newline_before \in IF pc = "log_call" THEN BOOLEAN ELSE {FALSE}
    /\ log_calls = 0

NextRalph ==
    \/ RunCalculateBackoff
    \/ RunCalculateSleepSeconds
    \/ ProcessLine
    \/ ReturnResultLine
    \/ RunFetchFeedback
    \/ RunLog
    \/ CallProcessClaudeOutput

SpecRalph == InitRalph /\ [][NextRalph]_vars

\* main of ralph.py is started
InitLoop ==
    /\ pc = "for"
    /\ runtime_dir = None
    /\ IdleLog
    /\ IdleSession
    /\ findings = <<>>
    /\ IdleMain
    /\ attempt = 0
    /\ backoff = 0
    /\ claude_output = <<>>
    /\ verbose \in BOOLEAN
    /\ line_index = 0
    /\ result_line = None
    /\ session_id_printed = FALSE
    /\ raised = FALSE
    /\ console = <<>>
    /\ ralph_log \in LogFiles
    /\ hour = 12
    /\ ampm = "am"
    /\ reset_tz = "UTC"
    /\ now = [At(Null, 0, 0, 0, 0, 0, 0) EXCEPT !.given = FALSE]
    /\ sleep_secs = 0
    /\ script = [exists |-> FALSE]
    /\ msg = <<>>
    /\ newline_before = FALSE
    /\ log_calls = 0
    /\ loop_i = 0
    /\ max_iterations \in 0..MaxIterations
    /\ stop_marker = FALSE
    /\ prompt_file \in BOOLEAN
    /\ clock = StartClock
    /\ retry_start = 0
    /\ last_line = None
    /\ effects = <<>>

NextLoop ==
    \/ CreateStopFile
    \/ ForElse
    \/ StopFound
    \/ BeginPass
    \/ FirstRun
    \/ ClaudeNotFound
    \/ RetryStep

SpecLoop == InitLoop /\ [][NextLoop]_vars

\* main of ralph.py is started for one pass
InitLoopOnce == InitLoop /\ max_iterations = 1

\* The process is scheduled until it exits: every step of main that can be
\* taken is taken
FairSpecLoop == InitLoopOnce /\ [][NextLoop]_vars /\ WF_vars(NextLoop)

----------------------------------------------------------------------------
(* What the files read so far hold *)

IsRecordOfType(line, type) ==
    line.kind = "json" /\ "type" \in DOMAIN line.data /\ line.data.type = type

IsInitLine(line) ==
    /\ IsRecordOfType(line, "system")
    /\ "subtype" \in DOMAIN line.data
    /\ line.data.subtype = "init"

HasErrorFlag(line) == "is_error" \in DOMAIN line.data /\ line.data.is_error

\* A line that is no header, holds no record and is no "Result:" line
IsMalformed(line) ==
    \/ line.kind = "badjson"
    \/ line.kind = "raw" /\ ~StartsWith(line.text, ResultPrefix)

WellFormed(lines) == SelectSeq(lines, LAMBDA l : ~IsMalformed(l))

\* The positions of the lines of a file that satisfy Test, in file order
Positions(lines, Test(_)) ==
    SelectSeq([i \in 1..Len(lines) |-> i], LAMBDA i : Test(lines[i]))

\* The usage counter named key of a record, 0 where it is absent
UsageCounter(line, key) ==
    IF /\ "message" \in DOMAIN line.data
       /\ "usage" \in DOMAIN line.data.message
       /\ key \in DOMAIN line.data.message.usage
    THEN line.data.message.usage[key]
    ELSE 0

\* The sum of one usage counter over the assistant records of a file
RECURSIVE SumCounter(_, _)
SumCounter(lines, key) ==
    IF lines = <<>> THEN 0
    ELSE (IF IsRecordOfType(Head(lines), "assistant")
          THEN UsageCounter(Head(lines), key)
          ELSE 0)
         + SumCounter(Tail(lines), key)

\* The tool_use blocks of the assistant records of a file, in file order,
\* each with the output counter of its record and whether the record has a
\* parent id
RECURSIVE ToolUseBlocks(_)
ToolUseBlocks(lines) ==
    IF lines = <<>> THEN <<>>
    ELSE LET line == Head(lines)
             content == IF /\ IsRecordOfType(line, "assistant")
                           /\ "message" \in DOMAIN line.data
                           /\ "content" \in DOMAIN line.data.message
                        THEN line.data.message.content
                        ELSE <<>>
             nested == /\ "parent_tool_use_id" \in DOMAIN line.data
                       /\ line.data.parent_tool_use_id # Null
             blocks == SelectSeq(content, LAMBDA b : b.type = "tool_use")
         IN [k \in 1..Len(blocks) |->
                [block |-> blocks[k], nested |-> nested,
                 output_tokens |-> UsageCounter(line, "output_tokens")]]
            \o ToolUseBlocks(Tail(lines))

\* parse_session has opened the transcript
TranscriptOpened ==
    /\ pc \in {"session", "agents", "agent", "returned"}
    /\ fs.session_file
    /\ runtime_dir # None

\* parse_ralph_log is reading the log or has returned
LogOpened == pc = "log" \/ (pc = "idle" /\ parses > 0)

----------------------------------------------------------------------------
(* Claims *)

\* C1: after parse_session reads an existing transcript, total_input_tokens
\* is the sum over the assistant records of input_tokens +
\* cache_creation_input_tokens + cache_read_input_tokens, total_output_tokens
\* is the sum of output_tokens over the same records, and records of another
\* type contribute nothing.
C1_TokenTotals ==
    TranscriptOpened =>
        /\ session.total_input_tokens =
               SumCounter(transcript, "input_tokens")
               + SumCounter(transcript, "cache_creation_input_tokens")
               + SumCounter(transcript, "cache_read_input_tokens")
        /\ session.total_output_tokens = SumCounter(transcript, "output_tokens")

\* A transcript of a full turn, a record of another type and a turn without
\* cache counters has been read to its end.
C1_Witness ==
    /\ pc = "returned"
    /\ Len(transcript) = 3
    /\ \E i \in 1..3 : transcript[i] \in UserLines
    /\ session.total_input_tokens = 23
    /\ session.total_output_tokens = 40

\* C2: the invocation counter advances for every tool_use block, nested or
\* not, so the k-th block of the file has index k-1; session.tool_calls holds
\* exactly the blocks of records without a parent id, in file order, each
\* with that global index, so the indices are strictly increasing.
C2_GlobalIndex ==
    TranscriptOpened =>
        LET blocks == ToolUseBlocks(transcript)
            visible == Positions(blocks, LAMBDA b : ~b.nested)
        IN /\ tool_index = Len(blocks)
           /\ Len(session.tool_calls) = Len(visible)
           /\ \A j \in 1..Len(visible) :
                /\ session.tool_calls[j].index = visible[j] - 1
                /\ session.tool_calls[j].name = blocks[visible[j]].block.name
                /\ session.tool_calls[j].input = blocks[visible[j]].block.input
           /\ \A j, k \in 1..Len(session.tool_calls) :
                j < k => session.tool_calls[j].index < session.tool_calls[k].index

\* A top-level call, then a nested turn with two calls, then a top-level
\* call: the second visible call has index 3.
C2_Witness ==
    /\ pc = "returned"
    /\ Len(session.tool_calls) = 2
    /\ session.tool_calls[1].index = 0
    /\ session.tool_calls[2].index = 3
    /\ tool_index = 4

\* C3: in every tier the state of the parse after any lines equals the state
\* after the same lines with the malformed ones removed, and the parse goes
\* on after a malformed line.
C3_SkipAndContinue ==
    /\ LogOpened =>
           CurrentLogState = ParseRalphLog(LogEntry(entry_dir), WellFormed(log))
    /\ TranscriptOpened =>
           LET st == ParseSessionLines(SessState(EmptySession(session_id), 0),
                                       WellFormed(transcript))
           IN /\ [session EXCEPT !.agents = <<>>] = st.session
              /\ tool_index = st.tool_index
    /\ pc = "agent" =>
           AgentState(agent, agent_tool_index) =
               ParseAgentLines(AgentState(AgentSession(agent.agent_id, "unknown"), 0),
                               WellFormed(atranscripts[Len(atranscripts)]))

\* An agent file with a malformed line before an assistant record, in a
\* session whose own transcript began with a malformed line.
C3_Witness ==
    /\ pc = "agent"
    /\ transcript # <<>> /\ IsMalformed(transcript[1])
    /\ LET lines == atranscripts[Len(atranscripts)]
       IN /\ Len(lines) = 2
          /\ IsMalformed(lines[1])
          /\ ~IsMalformed(lines[2])
    /\ agent.tool_calls # <<>>

\* C4: parse_session for a session whose transcript does not exist, or with
\* no execution-directory key cached, returns a Session with that session id,
\* no tool calls and zero input and output tokens.
C4_MissingTranscript ==
    (pc = "returned" /\ (runtime_dir = None \/ ~fs.session_file)) =>
        /\ session.session_id = session_id
        /\ session.tool_calls = <<>>
        /\ session.total_input_tokens = 0
        /\ session.total_output_tokens = 0

\* parse_session has returned with a key cached and no transcript file.
C4_Witness ==
    /\ pc = "returned"
    /\ runtime_dir # None
    /\ ~fs.session_file
    /\ session.session_id = "s2"

LastHeaderBefore(lines, p) ==
    LET hs == {i \in 1..(p - 1) : lines[i].kind = "header"}
    IN IF hs = {} THEN 0 ELSE CHOOSE i \in hs : \A j \in hs : j <= i

C5_OnePerInit ==
    LogOpened =>
        LET inits == Positions(log, IsInitLine)
        IN /\ Len(iterations) = Len(inits)
           /\ \A k \in 1..Len(inits) :
                LET data == log[inits[k]].data
                    h == LastHeaderBefore(log, inits[k])
                IN /\ iterations[k].session_id =
                          (IF "session_id" \in DOMAIN data THEN data.session_id ELSE "")
                   /\ h # 0 =>
                          /\ iterations[k].number = log[h].number
                          /\ iterations[k].total = log[h].total
                          /\ iterations[k].timestamp = log[h].timestamp

C5_HeaderStep ==
    \A h \in HeaderLines :
        (pc = "log" /\ log' = Append(log, h)) =>
            /\ iterations' = iterations
            /\ runtime_dir' = runtime_dir
            /\ current_number' = h.number
            /\ current_total' = h.total
            /\ current_timestamp' = h.timestamp
            /\ current_session_id' = ""

\* C5: parse_ralph_log appends exactly one Iteration per initialization
\* record, in file order, with the number, total and timestamp of the most
\* recent header before it and the record's session id; a header appends no
\* Iteration and only sets the current context and clears the session id.
C5_IterationPerInit == []C5_OnePerInit /\ [][C5_HeaderStep]_vars

\* Header 2, an initialization record, then header 1: one Iteration, of
\* number 2, and the context of header 1 with the session id cleared.
C5_Witness ==
    /\ pc = "log"
    /\ Len(log) = 3
    /\ log[1].kind = "header" /\ IsInitLine(log[2]) /\ log[3].kind = "header"
    /\ Len(iterations) = 1
    /\ iterations[1].number = 2
    /\ iterations[1].session_id = "s2"
    /\ current_number = 1
    /\ current_session_id = ""

C6_ResultStep ==
    \A r \in ResultRecordLines :
        (pc = "log" /\ log' = Append(log, r)) =>
            IF HasErrorFlag(r) /\ iterations # <<>>
            THEN /\ Len(iterations') = Len(iterations)
                 /\ \A k \in 1..(Len(iterations) - 1) : iterations'[k] = iterations[k]
                 /\ iterations'[Len(iterations)] =
                        [iterations[Len(iterations)] EXCEPT
                            !.is_error = TRUE, !.result = r.data.result]
            ELSE iterations' = iterations

\* C6: a result record with its error flag set marks the most recently
\* appended Iteration, and no other, as errored and stores its result text;
\* without the flag it changes no Iteration, and before any Iteration exists
\* it has no effect.
C6_ErrorMarksLast == [][C6_ResultStep]_vars

\* Two Iterations, the second errored with the record's text, the first not.
C6_Witness ==
    /\ pc = "log"
    /\ Len(iterations) = 2
    /\ ~iterations[1].is_error /\ iterations[1].result = <<>>
    /\ iterations[2].is_error
    /\ iterations[2].result = <<"b", "o", "o", "m">>

\* The key of a working directory: "/" and "_" rewritten to "-"
KeyOf(cwd) == [i \in 1..Len(cwd) |-> IF cwd[i] \in {"/", "_"} THEN "-" ELSE cwd[i]]

HasCwd(line) ==
    IsInitLine(line) /\ "cwd" \in DOMAIN line.data /\ line.data.cwd # <<>>

\* C7 as stated: the key is derived from the working directory of the first
\* initialization record the parser ever sees.
C7_Original ==
    (parses = 1 /\ runtime_dir # None) =>
        LET inits == Positions(log, IsInitLine)
        IN /\ inits # <<>>
           /\ LET data == log[inits[1]].data
              IN runtime_dir = KeyOf(IF "cwd" \in DOMAIN data THEN data.cwd ELSE <<>>)

C7_FirstWithCwd ==
    parses = 1 =>
        LET inits == Positions(log, HasCwd)
        IN IF inits = <<>>
           THEN runtime_dir = None
           ELSE runtime_dir = KeyOf(log[inits[1]].data.cwd)

\* C7 amended: the key is derived from the working directory of the first
\* initialization record ever seen that carries a non-empty working
\* directory; once cached it is never changed by a later initialization
\* record, in the same log or in a later parse_ralph_log call.
C7_KeyCachedOnce ==
    []C7_FirstWithCwd /\ [][runtime_dir # None => runtime_dir' = runtime_dir]_vars

\* A second parse_ralph_log call on a parser whose key is that of "/c" reads
\* an initialization record of "/a_b", and the key is still that of "/c".
C7_Witness ==
    /\ parses = 2
    /\ pc = "log"
    /\ \E i \in 1..Len(log) : HasCwd(log[i]) /\ log[i].data.cwd = <<"/", "a", "_", "b">>
    /\ runtime_dir = <<"-", "c">>

\* The resources the calls of a session name
FilesOf(calls) ==
    {calls[i].input.file_path :
        i \in {j \in 1..Len(calls) : "file_path" \in DOMAIN calls[j].input}}

\* The index values of the top-level Read calls on fp, in call order
ReadsOn(calls, fp) ==
    LET at == Positions(calls, LAMBDA c : c.name = "Read" /\ c.input.file_path = fp)
    IN [k \in 1..Len(at) |-> calls[at[k]].index]

\* The consecutive pairs of reads of fp with no Edit or Write of fp at an
\* index strictly between them, each named by the place of its first read
RedundantPairs(calls, fp) ==
    LET reads == ReadsOn(calls, fp)
    IN {k \in 1..(Len(reads) - 1) :
          ~\E i \in 1..Len(calls) :
              /\ calls[i].name \in {"Edit", "Write"}
              /\ calls[i].input.file_path = fp
              /\ reads[k] < calls[i].index
              /\ calls[i].index < reads[k + 1]}

\* C8: find_redundant_reads reports a resource exactly when it has at least
\* one consecutive pair of reads with no Edit/Write of that same resource
\* strictly between them, once, with total_wasted_tokens 500 times the
\* number of such pairs; an edit of another resource cancels no pair.
C8_RedundantReads ==
    pc = "redundant_reads" =>
        LET calls == session.tool_calls
        IN /\ \A fp \in FilesOf(calls) :
                LET pairs == Cardinality(RedundantPairs(calls, fp))
                    found == {i \in 1..Len(findings) : findings[i].file_path = fp}
                IN IF pairs = 0
                   THEN found = {}
                   ELSE /\ Cardinality(found) = 1
                        /\ \A i \in found : findings[i].total_wasted_tokens = 500 * pairs
           /\ \A i \in 1..Len(findings) : findings[i].file_path \in FilesOf(calls)

\* Three reads of "a" with a write of "b" between the first two and an edit
\* of "a" between the last two: one redundant pair, 500 tokens.
C8_Witness ==
    /\ pc = "redundant_reads"
    /\ Len(session.tool_calls) = 5
    /\ session.tool_calls[2].name = "Write"
    /\ session.tool_calls[4].name = "Edit"
    /\ findings = <<RedundantRead("a", 3, 0, 500)>>

\* The places of the shell calls whose command holds a test-runner substring
TestCalls(calls) ==
    {i \in 1..Len(calls) :
        /\ calls[i].name = "Bash"
        /\ \E p \in TestPatterns : Contains(calls[i].input.command, p)}

\* The number of Edit and Write calls among the first n calls
EditsAmong(calls, n) ==
    Cardinality({i \in 1..n : calls[i].name \in {"Edit", "Write"}})

\* C9: when the session has a test call, find_late_test_runs reports exactly
\* one finding if at least 5 Edit/Write calls precede the first test call,
\* with edits_before_test the number of those calls, and nothing otherwise.
C9_LateTest ==
    (pc = "late_tests" /\ TestCalls(session.tool_calls) # {}) =>
        LET calls == session.tool_calls
            first == CHOOSE i \in TestCalls(calls) : \A j \in TestCalls(calls) : i <= j
            edits == EditsAmong(calls, first - 1)
        IN IF edits >= 5
           THEN /\ Len(findings) = 1
                /\ findings[1].edits_before_test = edits
           ELSE findings = <<>>

\* Five edits, the tests, then a sixth edit: one finding, of 5 edits.
C9_Witness ==
    /\ pc = "late_tests"
    /\ Len(session.tool_calls) = 7
    /\ TestCalls(session.tool_calls) = {6}
    /\ session.tool_calls[7].name = "Edit"
    /\ findings = <<LateTestRun(5, 5, 7)>>

\* C10: when the session has no test call, find_late_test_runs reports
\* exactly one finding, with first_test_index -1 and edits_before_test the
\* number of all Edit/Write calls, if there is at least one such call, and
\* nothing if there is none.
C10_NoTest ==
    (pc = "late_tests" /\ TestCalls(session.tool_calls) = {}) =>
        LET calls == session.tool_calls
            edits == EditsAmong(calls, Len(calls))
        IN IF edits > 0
           THEN /\ Len(findings) = 1
                /\ findings[1].first_test_index = -1
                /\ findings[1].edits_before_test = edits
           ELSE findings = <<>>

\* A single edit and a shell call that runs no test: one finding.
C10_Witness ==
    /\ pc = "late_tests"
    /\ Len(session.tool_calls) = 2
    /\ session.tool_calls[2].name = "Bash"
    /\ findings = <<LateTestRun(1, -1, 2)>>

\* C11: find_agent_overhead flags an agent exactly when it made fewer than 3
\* tool calls: the findings are the agents with 0, 1 or 2 calls, in the order
\* of session.agents, each with its id, its type and its number of calls
C11_AgentOverhead ==
    pc = "agent_overhead" =>
        LET low == SelectSeq([k \in 1..Len(session.agents) |-> k],
                             LAMBDA k : Len(session.agents[k].tool_calls) \in {0, 1, 2})
        IN /\ Len(findings) = Len(low)
           /\ \A j \in 1..Len(low) :
                findings[j] = [agent_id |-> session.agents[low[j]].agent_id,
                               agent_type |-> session.agents[low[j]].agent_type,
                               tool_call_count |->
                                   Len(session.agents[low[j]].tool_calls)]

\* An agent of 2 calls is flagged and an agent of 3 calls is not
C11_Witness ==
    /\ pc = "agent_overhead"
    /\ Len(session.agents) = 2
    /\ Len(session.agents[1].tool_calls) = 3
    /\ Len(session.agents[2].tool_calls) = 2
    /\ Len(findings) = 1
    /\ findings[1].agent_id = "a2"
    /\ findings[1].tool_call_count = 2

\* C13: when every token count of a session, top-level and of every agent, is
\* doubled, the cost estimate_cost returns is exactly twice the cost it
\* returned for the session before
C13_DoublingDoublesCost ==
    \A i, j \in 1..Len(costs) :
        sessions[j] = DoubleTokensOf(sessions[i]) =>
            costs[j].estimated_cost_usd = 2 * costs[i].estimated_cost_usd

\* A session with tokens of its own and two agents of different tiers that
\* used tokens has been priced, and so has the session of twice the counts
C13_Witness ==
    /\ Len(costs) = 2
    /\ sessions[2] = DoubleTokensOf(sessions[1])
    /\ sessions[1].total_input_tokens > 0
    /\ Len(sessions[1].agents) = 2
    /\ sessions[1].agents[1].agent_type = "Explore/Haiku"
    /\ sessions[1].agents[2].agent_type = "Sonnet"
    /\ \A k \in 1..2 : sessions[1].agents[k].total_output_tokens > 0
    /\ costs[2].estimated_cost_usd > costs[1].estimated_cost_usd

\* The agents of a session whose tier is the cheap one, and the others
CheapAgents(s) == SelectSeq(s.agents, LAMBDA a : a.agent_type = "Explore/Haiku")
OtherAgents(s) == SelectSeq(s.agents, LAMBDA a : a.agent_type # "Explore/Haiku")

C15_BreakdownTokens ==
    \A k \in 1..Len(costs) :
        /\ costs[k].input_tokens =
              sessions[k].total_input_tokens
              + SumOver(sessions[k].agents, "total_input_tokens")
        /\ costs[k].output_tokens =
              sessions[k].total_output_tokens
              + SumOver(sessions[k].agents, "total_output_tokens")

\* The breakdown of a session with tokens of its own and two agents with
\* tokens holds more tokens than the session's own totals
C15_Witness ==
    /\ costs # <<>>
    /\ sessions[1].total_input_tokens > 0
    /\ Len(sessions[1].agents) = 2
    /\ \A k \in 1..2 : sessions[1].agents[k].total_input_tokens > 0
    /\ costs[1].input_tokens > sessions[1].total_input_tokens
    /\ costs[1].output_tokens > sessions[1].total_output_tokens

\* The tool names the calls of a session and of its agents carry
NamesIn(s) ==
    {s.tool_calls[i].name : i \in 1..Len(s.tool_calls)}
    \cup UNION {{s.agents[a].tool_calls[i].name :
                    i \in 1..Len(s.agents[a].tool_calls)} :
                 a \in 1..Len(s.agents)}

\* The number of calls of a list that carry the name n
CallsNamed(calls, n) == Cardinality({i \in 1..Len(calls) : calls[i].name = n})

RECURSIVE AgentCallsNamed(_, _)
AgentCallsNamed(agents, n) ==
    IF agents = <<>> THEN 0
    ELSE CallsNamed(Head(agents).tool_calls, n) + AgentCallsNamed(Tail(agents), n)

\* C16: for every tool name n, by_tool[n] is the number of top-level calls
\* named n and by_tool["Agent:" + n] is the number of agent calls named n, so
\* that no entry mixes the two, and the entries sum to the number of all calls
C16_Original ==
    \A k \in 1..Len(costs) :
        /\ \A n \in NamesIn(sessions[k]) :
              /\ DictGet(costs[k].by_tool, Chars(n), 0)
                    = CallsNamed(sessions[k].tool_calls, n)
              /\ DictGet(costs[k].by_tool, AgentPrefix \o Chars(n), 0)
                    = AgentCallsNamed(sessions[k].agents, n)
        /\ SumValues(costs[k].by_tool)
              = Len(sessions[k].tool_calls)
                + SumLen([a \in 1..Len(sessions[k].agents) |->
                             sessions[k].agents[a].tool_calls])

\* C17: detect_all_patterns returns its patterns in non-increasing order of
\* estimated_waste_tokens
C17_RankedByWaste ==
    pc = "patterns" =>
        \A i, j \in 1..Len(patterns) :
            i < j => patterns[i].estimated_waste_tokens
                       >= patterns[j].estimated_waste_tokens

\* Three patterns are returned, and the one found first (redundant reads) is
\* not the one of the largest waste
C17_Witness ==
    /\ pc = "patterns"
    /\ Len(patterns) = 3
    /\ patterns[1].estimated_waste_tokens > patterns[2].estimated_waste_tokens
    /\ patterns[2].estimated_waste_tokens > patterns[3].estimated_waste_tokens
    /\ patterns[1].name # "Redundant File Reads"

PatternNames ==
    {"Redundant File Reads", "Late Test Execution", "Low-Value Agent Launches"}

\* A pattern of this name is among the patterns returned
Named(name) == \E k \in 1..Len(patterns) : patterns[k].name = name

\* The same sessions with an offset given to every Read call
WithOffsets(ss) ==
    [k \in 1..Len(ss) |->
        [ss[k] EXCEPT !.tool_calls =
            [i \in 1..Len(ss[k].tool_calls) |->
                IF ss[k].tool_calls[i].name = "Read"
                THEN [ss[k].tool_calls[i] EXCEPT !.input = ("offset" :> 0) @@ @]
                ELSE ss[k].tool_calls[i]]]]

\* C18: detect_all_patterns returns at most three patterns, of three
\* different names; the redundant-reads, late-test and low-value-delegation
\* pattern is present exactly when some session of the batch has a finding of
\* that kind; and the patterns are those of the same batch without any
\* large-file-read finding (every Read given an offset)
C18_ThreePatterns ==
    pc = "patterns" =>
        /\ Len(patterns) <= 3
        /\ \A k \in 1..Len(patterns) : patterns[k].name \in PatternNames
        /\ \A i, j \in 1..Len(patterns) :
              patterns[i].name = patterns[j].name => i = j
        /\ Named("Redundant File Reads")
              <=> \E k \in 1..Len(sessions) : FindRedundantReads(sessions[k]) # <<>>
        /\ Named("Late Test Execution")
              <=> \E k \in 1..Len(sessions) : FindLateTestRuns(sessions[k]) # <<>>
        /\ Named("Low-Value Agent Launches")
              <=> \E k \in 1..Len(sessions) : FindAgentOverhead(sessions[k]) # <<>>
        /\ \A k \in 1..Len(sessions) :
              FindLargeFileReads(WithOffsets(sessions)[k]) = <<>>
        /\ patterns = DetectAllPatterns(WithOffsets(sessions))

\* A batch whose only session has a large-file-read finding and no redundant
\* read yields the late-test pattern alone
C18_Witness ==
    /\ pc = "patterns"
    /\ Len(sessions) = 1
    /\ FindLargeFileReads(sessions[1]) # <<>>
    /\ FindRedundantReads(sessions[1]) = <<>>
    /\ Len(patterns) = 1
    /\ patterns[1].name = "Late Test Execution"

\* No log file can be resolved: none is given and the log directory holds none
NoLogResolved == args.log_file = Null /\ ~disk.latest

\* The path given names no file
GivenPathMissing == args.log_file # Null /\ ~disk.given

\* The log holds no initialization record, so that no iteration is found
ZeroIterations ==
    \A k \in 1..Len(disk.lines) :
        ~(disk.lines[k].kind = "json" /\ IsInitLine(disk.lines[k]))

\* C19: main exits with code 1, after a message on standard error and with no
\* session parsed and nothing printed on standard output, exactly when no log
\* file can be resolved, the given path does not exist or the log holds no
\* iteration; otherwise it prints a report and exits with code 0; until it
\* exits it has printed no report and is at a step that can be taken
C19_ExitCodes ==
    /\ pc = "exited" =>
          /\ exit_code \in {0, 1}
          /\ exit_code = 1 <=> (NoLogResolved \/ GivenPathMissing \/ ZeroIterations)
          /\ exit_code = 1 =>
                /\ Len(stderr) = 1
                /\ stdout = <<>>
                /\ sessions = <<>>
                /\ costs = <<>>
                /\ detect_calls = 0
          /\ exit_code = 0 =>
                /\ stdout # <<>>
                /\ stdout[1].kind \in {"summary", "json"}
    /\ pc # "exited" =>
          /\ exit_code = -1
          /\ stdout = <<>>
          /\ pc \in {"main", "found", "parse", "filter", "loop", "report"}
          /\ it_index <= Len(iterations)

\* main has printed a report and exited with code 0 after it parsed two
\* sessions whose transcripts are both missing
C19_Witness ==
    /\ pc = "exited"
    /\ exit_code = 0
    /\ stdout # <<>>
    /\ Len(sessions) = 2
    /\ \A k \in 1..2 : sessions[k] = EmptySession(iterations[k].session_id)
    /\ \A sid \in SessionIds : ~disk.dirs[sid].session_file

\* The iterations among the first n that carry a session id, in order
WithSessionId(its, n) ==
    SelectSeq(SubSeq(its, 1, n), LAMBDA it : it.session_id # "")

\* C20: while main loops over the iterations and afterwards, sessions and
\* costs hold one entry for each iteration taken so far that carries a
\* session id, in the order of the iterations, the k-th session being the one
\* parsed from the k-th such session id and the k-th cost its cost;
\* detect_all_patterns is called at most once, only after the loop has taken
\* every iteration, and it has been called when main exits with code 0
C20_OnePerIteration ==
    pc \in {"loop", "report"} \/ (pc = "exited" /\ exit_code = 0) =>
        LET taken == WithSessionId(iterations, it_index)
        IN /\ Len(sessions) = Len(taken)
           /\ Len(costs) = Len(taken)
           /\ \A k \in 1..Len(taken) :
                /\ sessions[k].session_id = taken[k].session_id
                /\ sessions[k] = ParseSession(runtime_dir, taken[k].session_id,
                                              disk.dirs[taken[k].session_id])
                /\ costs[k].input_tokens
                     = sessions[k].total_input_tokens
                       + SumOver(sessions[k].agents, "total_input_tokens")
           /\ detect_calls <= 1
           /\ detect_calls = 1 <=> pc # "loop"
           /\ pc # "loop" => it_index = Len(iterations)

\* main has exited after a loop that skipped an iteration without session id
\* between two iterations whose sessions it parsed
C20_Witness ==
    /\ pc = "exited"
    /\ exit_code = 0
    /\ Len(iterations) = 3
    /\ iterations[1].session_id = "s2"
    /\ iterations[2].session_id = ""
    /\ iterations[3].session_id = "s1"
    /\ Len(sessions) = 2
    /\ sessions[1].total_input_tokens > 0
    /\ sessions[2].agents # <<>>
    /\ detect_calls = 1

\* The iterations parse_ralph_log returns for the log main analyses
AllIterations == ParseRalphLog(LogEntry(None), disk.lines).iterations

\* C21: with --last N, N > 0, the iterations main goes on with are the final
\* N of the parsed list (all of them when there are fewer), in their order;
\* no session is parsed or priced before the truncation, and every session
\* parsed afterwards is one of an iteration among those final N
C21_LastN ==
    /\ pc \in {"main", "found", "parse", "filter"} => sessions = <<>> /\ costs = <<>>
    /\ (args.last > 0 /\ (pc \in {"loop", "report"} \/ exit_code = 0)) =>
          LET all == AllIterations
              kept == IF args.last < Len(all) THEN args.last ELSE Len(all)
          IN /\ Len(iterations) = kept
             /\ \A k \in 1..kept : iterations[k] = all[Len(all) - kept + k]
             /\ Len(sessions) <= kept
             /\ \A k \in 1..Len(sessions) :
                  \E i \in 1..kept : sessions[k].session_id = iterations[i].session_id

\* With --last 1 and a log of two iterations of different sessions, only the
\* session of the second iteration has been parsed and priced
C21_Witness ==
    /\ pc = "report"
    /\ args.last = 1
    /\ Len(AllIterations) = 2
    /\ AllIterations[1].session_id = "s1"
    /\ AllIterations[2].session_id = "s2"
    /\ Len(iterations) = 1
    /\ Len(sessions) = 1
    /\ sessions[1].session_id = "s2"
    /\ Len(costs) = 1

\* C22: in the report main prints, the k-th per-session entry shows the cost
\* figures of the k-th session parsed together with the session id, the
\* error flag and (in the structured report) the iteration number of the
\* iteration whose session id that session was parsed from
C22_Original ==
    (pc = "exited" /\ exit_code = 0) =>
        LET report == stdout[1]
            parsed == WithSessionId(iterations, Len(iterations))
        IN /\ Len(report.per_session) = Len(costs)
           /\ \A k \in 1..Len(report.per_session) :
                /\ report.per_session[k].cost_usd = costs[k].estimated_cost_usd
                /\ report.per_session[k].session_id = parsed[k].session_id
                /\ report.per_session[k].session_id = sessions[k].session_id
                /\ report.per_session[k].is_error = parsed[k].is_error
                /\ report.kind = "json" =>
                     report.per_session[k].iteration = parsed[k].number

\* What _parse_agent_file makes of the lines of one agent file: a call for
\* every tool_use block, the k-th with index k-1, and the sums of the usage
\* counters of the assistant records of that file
ScopedToFile(a, lines) ==
    LET blocks == ToolUseBlocks(lines)
    IN /\ Len(a.tool_calls) = Len(blocks)
       /\ \A k \in 1..Len(blocks) :
            /\ a.tool_calls[k].index = k - 1
            /\ a.tool_calls[k].name = blocks[k].block.name
            /\ a.tool_calls[k].input = blocks[k].block.input
       /\ a.total_input_tokens =
              SumCounter(lines, "input_tokens")
              + SumCounter(lines, "cache_creation_input_tokens")
              + SumCounter(lines, "cache_read_input_tokens")
       /\ a.total_output_tokens = SumCounter(lines, "output_tokens")

\* C23: every agent file is parsed on its own: the counter of the file being
\* read starts at 0 and counts the tool_use blocks read from it, every such
\* block is a call of the agent, the k-th with index k-1, and the totals of
\* the agent are the sums over the assistant records of its own file,
\* whatever the transcript of the session and the other agent files hold
C23_AgentScope ==
    /\ pc = "agent" =>
          /\ ScopedToFile(agent, atranscripts[Len(atranscripts)])
          /\ agent_tool_index = Len(agent.tool_calls)
    /\ pc \in {"agents", "agent", "returned"} =>
          \A i \in 1..Len(session.agents) :
              ScopedToFile(session.agents[i], atranscripts[i])

\* After a transcript with a call, an agent of a nested turn with two calls
\* and a second agent with one call: the indices of each agent start at 0
C23_Witness ==
    /\ pc = "returned"
    /\ tool_index > 0
    /\ Len(session.agents) = 2
    /\ Len(session.agents[1].tool_calls) = 2
    /\ session.agents[1].tool_calls[1].index = 0
    /\ session.agents[1].tool_calls[2].index = 1
    /\ "parent_tool_use_id" \in DOMAIN atranscripts[1][1].data
    /\ Len(session.agents[2].tool_calls) = 1
    /\ session.agents[2].tool_calls[1].index = 0
    /\ session.agents[2].total_input_tokens > 0

\* The model string an initialization record declares, empty when it has none
DeclaredModel(line) ==
    IF "model" \in DOMAIN line.data THEN line.data.model ELSE <<>>

\* Some initialization record of the file declares a model that holds id
SomeInitHolds(lines, id) ==
    \E i \in 1..Len(lines) :
        IsInitLine(lines[i]) /\ Contains(DeclaredModel(lines[i]), id)

\* The tier of an agent against the lines of its file
TierOfFile(a, lines) ==
    /\ a.agent_type \in {"Explore/Haiku", "Sonnet", "Opus", "unknown"}
    /\ a.agent_type = "Explore/Haiku" => SomeInitHolds(lines, Haiku)
    /\ a.agent_type = "Sonnet" => SomeInitHolds(lines, Sonnet)
    /\ a.agent_type = "Opus" => SomeInitHolds(lines, Opus)
    /\ a.agent_type = "unknown" <=>
          ~(\E id \in {Haiku, Sonnet, Opus} : SomeInitHolds(lines, id))

IsResultText(line) == line.kind = "raw" /\ StartsWith(line.text, ResultPrefix)

\* What follows "Result:" on the line, without the whitespace around it:
\* the text with no whitespace at either end that whitespace extends to
\* the rest of the line
TextAfterPrefix(line) ==
    LET rest == SubSeq(line.text, Len(ResultPrefix) + 1, Len(line.text))
        Blank(t) == \A i \in 1..Len(t) : t[i] \in Whitespace
    IN CHOOSE t \in {SubSeq(rest, a, b) : a \in 1..(Len(rest) + 1), b \in 0..Len(rest)} :
          /\ t = <<>> \/ (t[1] \notin Whitespace /\ t[Len(t)] \notin Whitespace)
          /\ \E a \in 1..(Len(rest) + 1) :
                /\ Blank(SubSeq(rest, 1, a - 1))
                /\ SubSeq(rest, a, a + Len(t) - 1) = t
                /\ Blank(SubSeq(rest, a + Len(t), Len(rest)))

C29_ResultTextStep ==
    \A r \in LogLines :
        (IsResultText(r) /\ pc = "log" /\ log' = Append(log, r)) =>
            /\ UNCHANGED <<current_session_id, current_timestamp, current_number,
                           current_total, runtime_dir>>
            /\ IF iterations # <<>>
               THEN /\ Len(iterations') = Len(iterations)
                    /\ \A k \in 1..(Len(iterations) - 1) : iterations'[k] = iterations[k]
                    /\ iterations'[Len(iterations)] =
                           [iterations[Len(iterations)] EXCEPT
                               !.result = TextAfterPrefix(r)]
               ELSE iterations' = iterations

\* C29: a "Result:" line sets only the result field of the most recent
\* Iteration, to the text after the prefix without surrounding whitespace;
\* it leaves that Iteration's error flag, number, total, session id and
\* timestamp and every earlier Iteration unchanged, appends no Iteration,
\* and has no effect when no Iteration exists.
C29_ResultTextSetsLast == [][C29_ResultTextStep]_vars

\* An errored Iteration whose result text was then replaced by a "Result:"
\* line keeps its error flag.
C29_Witness ==
    /\ pc = "log"
    /\ Len(log) = 3
    /\ IsInitLine(log[1])
    /\ IsRecordOfType(log[2], "result") /\ HasErrorFlag(log[2])
    /\ IsResultText(log[3])
    /\ Len(iterations) = 1
    /\ iterations[1].is_error
    /\ iterations[1].result = <<"o", "k">>

\* A line that is no header, no initialization record, no error result
\* record and no "Result:" line: plain text, a record of another type or a
\* result record without the error flag
IsInertLine(line) ==
    \/ line.kind = "raw" /\ ~IsResultText(line)
    \/ /\ line.kind = "json"
       /\ ~IsInitLine(line)
       /\ ~(IsRecordOfType(line, "result") /\ HasErrorFlag(line))

C30_InertStep ==
    \A r \in LogLines :
        (IsInertLine(r) /\ pc = "log" /\ log' = Append(log, r)) =>
            UNCHANGED <<iterations, current_session_id, current_timestamp,
                        current_number, current_total, runtime_dir>>

\* C30: a log line that is no header, no initialization record, no error
\* result record and no "Result:" line leaves the Iteration list, the
\* current header context and the cached execution-directory key unchanged.
C30_InertLines == [][C30_InertStep]_vars

\* After a header and an initialization record with a working directory, a
\* result record without the error flag has been read and nothing moved.
C30_Witness ==
    /\ pc = "log"
    /\ Len(log) = 3
    /\ log[1].kind = "header"
    /\ HasCwd(log[2])
    /\ IsRecordOfType(log[3], "result") /\ ~HasErrorFlag(log[3])
    /\ iterations = <<Iteration(log[1].number, log[1].total,
                                log[2].data.session_id, log[1].timestamp)>>
    /\ current_number = log[1].number
    /\ current_session_id = log[2].data.session_id
    /\ runtime_dir # None

\* C25: calculate_backoff(attempt) is INITIAL_BACKOFF_SECONDS * 2^attempt
\* capped at MAX_BACKOFF_SECONDS for every attempt from 0 on: 15, 30, 60,
\* 120, 240, 240, ...; no earlier attempt waits longer, and no attempt waits
\* more than 240 seconds.
C25_Backoff ==
    pc = "backoff" =>
        /\ backoff = (IF 15 * 2^attempt > 240 THEN 240 ELSE 15 * 2^attempt)
        /\ attempt < 6 => backoff = <<15, 30, 60, 120, 240, 240>>[attempt + 1]
        /\ attempt >= 6 => backoff = 240
        /\ \A earlier \in 0..attempt : CalculateBackoff(earlier) <= backoff
        /\ backoff <= 240

\* The sixth attempt waits the capped 240 seconds, not 480
C25_Witness == pc = "backoff" /\ attempt = 5 /\ backoff = 240

\* The line that process_claude_output is to return: the last line of the
\* input that holds the marker, without its line end, or None
ExpectedResultLine(ls) ==
    LET holds == {i \in 1..Len(ls) : \E k \in 1..Len(ls[i]) : ls[i][k] = Marker}
        last == CHOOSE i \in holds : \A j \in holds : j <= i
    IN IF holds = {} THEN None
       ELSE IF ls[last][Len(ls[last])] = "\n"
       THEN SubSeq(ls[last], 1, Len(ls[last]) - 1)
       ELSE ls[last]

\* C26 as stated: process_claude_output returns, for either value of verbose
\* and whether or not the lines are valid JSON, the last line that holds the
\* success-result marker without its line end, and None when there is none
C26_Original ==
    /\ pc # "output_raised"
    /\ pc = "output_done" => result_line = ExpectedResultLine(claude_output)

\* The instants, in whole seconds, at which the clocks of tz read h24:00:00
ResetInstants(tz, h24) ==
    {u \in {Timestamp(Datetime(tz, d, h24 * 3600, 0, f)) : d \in 0..3, f \in 0..1} :
        FromTimestamp(tz, u, 0).sec = h24 * 3600}

\* The instant of now, in whole seconds, for a call of calculate_sleep_seconds
InstantOfNow(dt, tz) ==
    IF dt.given /\ dt.tz # Null THEN Timestamp(dt)
    ELSE IF dt.given THEN Timestamp([dt EXCEPT !.tz = tz])
    ELSE Timestamp([dt EXCEPT !.tz = "UTC"])

\* The whole seconds from now to the next time, strictly after now, that
\* the clocks of tz read h24:00:00
SecondsUntilReset(dt, tz, h24) ==
    LET t == InstantOfNow(dt, tz)
        later == {u \in ResetInstants(tz, h24) : u > t}
        next == CHOOSE u \in later : \A v \in later : u <= v
    IN next - t - (IF dt.micro > 0 THEN 1 ELSE 0)

\* C27 as stated: calculate_sleep_seconds reads 12am as hour 0, 12pm as hour
\* 12 and adds 12 to the other pm hours, and returns the whole seconds from
\* now to the next occurrence of that hour strictly after now in the reset
\* time zone, plus 60; the result is greater than 60 and at most one day
\* plus 60 seconds
C27_Original ==
    pc = "sleep" =>
        LET h24 == IF hour = 12 THEN (IF ampm = "am" THEN 0 ELSE 12)
                   ELSE (IF ampm = "am" THEN hour ELSE hour + 12)
        IN /\ sleep_secs = SecondsUntilReset(now, reset_tz, h24) + 60
           /\ sleep_secs > 60
           /\ sleep_secs <= 86400 + 60

\* The lines of a printed or logged message: it is cut at each line end
RECURSIVE SplitLines(_)
SplitLines(message) ==
    IF \A k \in 1..Len(message) : message[k] # "\n" THEN <<message>>
    ELSE LET cut == CHOOSE k \in 1..Len(message) :
                        message[k] = "\n" /\ \A j \in 1..(k - 1) : message[j] # "\n"
         IN <<SubSeq(message, 1, cut - 1)>> \o SplitLines(SubSeq(message, cut + 1, Len(message)))

RECURSIVE LinesOf(_)
LinesOf(msgs) ==
    IF msgs = <<>> THEN <<>> ELSE SplitLines(Head(msgs)) \o LinesOf(Tail(msgs))

FeedbackLines(msgs) ==
    SelectSeq(LinesOf(msgs), LAMBDA l : l # <<>> /\ l[1] = "Feedback:")

\* The words by which the message of fetch_feedback tells what became of
\* the script
OutcomeWords(scr) ==
    IF ~scr.exists THEN <<"scripts/fetch-feedback.py", " not found, skipping">>
    ELSE IF scr.outcome = "timeout" THEN <<"fetch timed out after 30s">>
    ELSE IF scr.outcome = "error" THEN <<"fetch error: ", scr.error>>
    ELSE IF scr.returncode = 0
    THEN SelectSeq(scr.stdout, LAMBDA w : w \notin {" ", "\n"})
    ELSE IF scr.returncode = 1 THEN <<"No new feedback">>
    ELSE <<"fetch failed (exit ", ToString(scr.returncode), "): ">>

\* The words of text are words of message, in the same order
RECURSIVE InOrder(_, _)
InOrder(text, message) ==
    IF text = <<>> THEN TRUE
    ELSE IF message = <<>> THEN FALSE
    ELSE IF Head(text) = Head(message) THEN InOrder(Tail(text), Tail(message))
    ELSE InOrder(text, Tail(message))

UnboundedReads(s, fp) ==
    Cardinality({i \in 1..Len(s.tool_calls) :
        /\ s.tool_calls[i].name = "Read"
        /\ "file_path" \in DOMAIN s.tool_calls[i].input
        /\ s.tool_calls[i].input.file_path = fp
        /\ "offset" \notin DOMAIN s.tool_calls[i].input
        /\ "limit" \notin DOMAIN s.tool_calls[i].input})

\* C31: find_large_file_reads reports a resource exactly when the session
\* has more than one Read call of its own on it that carries neither an
\* offset nor a limit; read_count counts those reads only; each resource is
\* reported once, and the results are in descending order of read_count.
C31_LargeFileReads ==
    pc = "large_reads" =>
        /\ \A fp \in {"a", "b"} :
              (\E k \in 1..Len(findings) : findings[k].file_path = fp)
                  <=> UnboundedReads(session, fp) > 1
        /\ \A k \in 1..Len(findings) :
              /\ findings[k].read_count = UnboundedReads(session, findings[k].file_path)
              /\ \A j \in 1..Len(findings) :
                    /\ findings[j].file_path = findings[k].file_path => j = k
                    /\ j < k => findings[j].read_count >= findings[k].read_count

\* A file read three times, once of them from an offset, is reported with
\* two reads
C31_Witness ==
    /\ pc = "large_reads"
    /\ findings = <<LargeFileRead("a", 0, 2)>>
    /\ Cardinality({i \in 1..Len(session.tool_calls) :
           /\ session.tool_calls[i].name = "Read"
           /\ session.tool_calls[i].input.file_path = "a"}) = 3
    /\ \E i \in 1..Len(session.tool_calls) :
           "offset" \in DOMAIN session.tool_calls[i].input

\* The redundant read pairs of a session on the files of the set
RECURSIVE PairsOn(_, _)
PairsOn(calls, files) ==
    IF files = {} THEN 0
    ELSE LET fp == CHOOSE f \in files : TRUE
         IN Cardinality(RedundantPairs(calls, fp)) + PairsOn(calls, files \ {fp})

RECURSIVE TotalRedundantPairs(_)
TotalRedundantPairs(ss) ==
    IF ss = <<>> THEN 0
    ELSE PairsOn(Head(ss).tool_calls, FilesOf(Head(ss).tool_calls))
         + TotalRedundantPairs(Tail(ss))

\* C36 as stated: the occurrences of the "Redundant File Reads" pattern are
\* the redundant read pairs of all sessions, and its estimated waste is 500
\* tokens for each occurrence
C36_Original ==
    pc = "patterns" =>
        \A k \in 1..Len(patterns) :
            patterns[k].name = "Redundant File Reads" =>
                /\ patterns[k].occurrences = TotalRedundantPairs(sessions)
                /\ patterns[k].estimated_waste_tokens = 500 * patterns[k].occurrences

\* C37 as stated: an Iteration is errored only when an error result record
\* lies after its own initialization record with no iteration header
\* between the two
C37_Original ==
    pc = "log" =>
        LET inits == Positions(log, IsInitLine)
        IN \A k \in 1..Len(iterations) :
              iterations[k].is_error =>
                  \E j \in (inits[k] + 1)..Len(log) :
                      /\ IsRecordOfType(log[j], "result")
                      /\ HasErrorFlag(log[j])
                      /\ \A h \in (inits[k] + 1)..(j - 1) : log[h].kind # "header"

\* C38: agent files are parsed only when the transcript of the session
\* exists.  Without it parse_session returns a Session without agents, even
\* when the agent directory holds agent files; with it and without agent
\* directory the Session has the calls and tokens of the transcript and no
\* agents; with both there is one AgentSession for each agent file, in the
\* sorted order of the file names.
C38_AgentsNeedTranscript ==
    pc = "returned" =>
        /\ ~fs.session_file => session.agents = <<>>
        /\ (fs.session_file /\ runtime_dir # None /\ ~fs.agent_dir) =>
              /\ session.agents = <<>>
              /\ Len(session.tool_calls) =
                    Len(SelectSeq(ToolUseBlocks(transcript), LAMBDA b : ~b.nested))
              /\ session.total_output_tokens = SumCounter(transcript, "output_tokens")
        /\ (fs.session_file /\ runtime_dir # None /\ fs.agent_dir) =>
              /\ Len(session.agents) = Cardinality(fs.agent_files)
              /\ \A f \in fs.agent_files :
                    \E i \in 1..Len(session.agents) : session.agents[i].agent_id = f
              /\ \A i, j \in 1..Len(session.agents) :
                    i < j => /\ session.agents[i].agent_id = "a1"
                             /\ session.agents[j].agent_id = "a2"

\* Both agent files of a session with a transcript have been parsed, "a1"
\* before "a2"
C38_Witness ==
    /\ pc = "returned"
    /\ fs.session_file /\ fs.agent_dir
    /\ fs.agent_files = {"a1", "a2"}
    /\ Len(session.agents) = 2
    /\ session.agents[1].agent_id = "a1"
    /\ session.agents[2].agent_id = "a2"

\* Without transcript the agent file of the session is left unread
C38_WitnessMissing ==
    /\ pc = "returned"
    /\ runtime_dir # None
    /\ ~fs.session_file /\ fs.agent_dir /\ fs.agent_files = {"a1"}
    /\ session.agents = <<>>

\* An output line without the line end it was read with
LineBody(line) ==
    IF line # <<>> /\ line[Len(line)] = "\n" THEN SubSeq(line, 1, Len(line) - 1)
    ELSE line

\* What one step adds to the log file: a call of log adds its message, after
\* an empty line when newline_before is set; a turn of process_claude_output
\* adds the line it took; fetch_feedback adds the message it printed
AddedLines ==
    IF log_calls' = log_calls + 1
    THEN (IF newline_before THEN <<<<>>>> ELSE <<>>) \o <<msg>>
    ELSE IF line_index' = line_index + 1
    THEN <<LineBody(claude_output[line_index + 1])>>
    ELSE IF console' # console /\ pc = "feedback"
    THEN <<console'[Len(console')]>>
    ELSE <<>>

\* C39: the orchestrator log is append-only: every step leaves the earlier
\* content of the log file in place and puts after it exactly the lines of
\* the call made (the message of log, after one empty line when
\* newline_before is set; the output line taken by process_claude_output),
\* and with no log file nothing is written.
C39_AppendOnly ==
    [][/\ ralph_log'.given = ralph_log.given
       /\ IF ralph_log.given
          THEN ralph_log'.lines = ralph_log.lines \o AddedLines
          ELSE ralph_log'.lines = <<>>]_vars

\* log, then a line of output, then log with newline_before, on one file
C39_Witness ==
    /\ pc = "log_call"
    /\ log_calls = 2
    /\ ralph_log.given
    /\ ralph_log.lines = <<<<"first">>, <<"not json">>, <<>>,
                           <<"second", " ", "message">>>>

\* log was called twice with no log file
C39_WitnessNoFile ==
    /\ pc = "log_call"
    /\ log_calls = 2
    /\ ~ralph_log.given
    /\ Len(console) >= 2

----------------------------------------------------------------------------
(* The control loop of ralph.py *)

IsHeaderMessage(m) == m # <<>> /\ m[1] = "=== Iteration "
IsStopMessage(m) == Len(m) >= 2 /\ m[2] = " found, stopping after "
IsCompletedMessage(m) == m # <<>> /\ m[1] = "Completed "

\* The iteration headers among the messages printed so far, in order
Headers == SelectSeq(console, IsHeaderMessage)

\* The stop file is there when the for looks for it
StopSeen == pc = "for" /\ loop_i < max_iterations /\ stop_marker

\* C32: the loop looks for the stop file before each pass, and once the
\* file is there at that check no further header is written and claude is
\* not run again: the step ends main, and main takes no step after it has
\* ended.  At most max_iterations headers are written, numbered 1, 2, ...
\* with total max_iterations.  The "Completed" message is printed only
\* when max_iterations passes ran and the stop file was never found.
C32_StopFile ==
    /\ [][/\ StopSeen => /\ pc' = "finished"
                         /\ effects' = effects
                         /\ SelectSeq(console', IsHeaderMessage) = Headers
          /\ pc \in {"finished", "exit_1"} => UNCHANGED vars]_vars
    /\ [](/\ Len(Headers) <= max_iterations
          /\ \A k \in 1..Len(Headers) :
                /\ Headers[k][2] = ToString(k)
                /\ Headers[k][4] = ToString(max_iterations)
          /\ \A r \in 1..Len(console) :
                IsCompletedMessage(console[r]) =>
                    /\ Len(Headers) = max_iterations
                    /\ \A h \in 1..Len(console) : ~IsStopMessage(console[h])
          /\ ralph_log.given =>
                SelectSeq(ralph_log.lines, IsHeaderMessage) = Headers)

\* The stop file was found after one pass of two, and main has ended
C32_Witness ==
    /\ pc = "finished"
    /\ max_iterations = 2
    /\ loop_i = 1
    /\ Len(Headers) = 1
    /\ \E r \in 1..Len(console) : IsStopMessage(console[r])
    /\ \E k \in 1..Len(effects) : effects[k].kind = "run"

\* Two passes of two ran and "Completed" was printed
C32_WitnessCompleted ==
    /\ pc = "finished"
    /\ Len(Headers) = 2
    /\ IsCompletedMessage(console[Len(console)])

\* What a retry came to: "failed" with no result line or one that is no
\* JSON, "ok" with a result that is no error, "server" with an API server
\* error, "other" with another error
RetryOutcome(line) ==
    IF line = None THEN "failed"
    ELSE LET d == LoadLastLine(line)
         IN IF d.kind = "error" THEN "failed"
            ELSE IF ~d.is_error THEN "ok"
            ELSE IF IsApiServerError(d.result) THEN "server"
            ELSE "other"

\* The time spent in the retry loop and the next backoff pass 8 hours
OutOfTime ==
    (clock - retry_start) + CalculateBackoff(attempt) > MAX_RETRY_DURATION_SECONDS

\* One turn of the retry loop, unless claude is gone
C33_RetryTurn ==
    pc = "retry" /\ pc' # "exit_1" =>
        IF OutOfTime
        THEN pc' = "for" /\ effects' = effects
        ELSE /\ Len(effects') = Len(effects) + 2
             /\ effects'[Len(effects) + 1].kind = "sleep"
             /\ effects'[Len(effects) + 1].secs = CalculateBackoff(attempt)
             /\ effects'[Len(effects) + 2].kind = "run"
             /\ clock' >= clock + CalculateBackoff(attempt)
             /\ IF RetryOutcome(effects'[Len(effects) + 2].line) \in {"ok", "other"}
                THEN pc' = "for"
                ELSE pc' = "retry" /\ attempt' = attempt + 1

\* C33: the retry loop for API server errors always ends.  It is entered
\* with attempt 0; a turn ends the loop when the time spent and the next
\* backoff pass MAX_RETRY_DURATION_SECONDS, and else sleeps
\* calculate_backoff(attempt) seconds, runs claude again, and ends the loop
\* when the retry gave a result that is no error or an error that is no API
\* server error; a retry with no result line, with a line that is no JSON
\* or with another API server error counts one more attempt and is
\* followed by another turn.
C33_RetryEnds ==
    /\ [][/\ C33_RetryTurn
          /\ pc # "retry" /\ pc' = "retry" => attempt' = 0 /\ retry_start' = clock']_vars
    /\ (pc = "retry" ~> pc # "retry")

\* The loop gave up after two failed retries: one without a result line,
\* one with a line that is no JSON
C33_Witness ==
    /\ pc = "for"
    /\ attempt = 2
    /\ Len(effects) = 5
    /\ effects[3].line = None
    /\ effects[5].line = RStripNewlines(UnparsableLine)
    /\ effects[4].secs = CalculateBackoff(1)
    /\ \E r \in 1..Len(console) : console[r][1] = "API error retry exceeded "

\* The reset that the result line of a run tells of, when it is an error
\* result with a rate limit message
ResetOf(line) ==
    IF line = None THEN [found |-> FALSE]
    ELSE LET d == LoadLastLine(line)
         IN IF d.kind = "object" /\ d.has_result /\ d.is_error
            THEN ParseRateLimitReset(d.result)
            ELSE [found |-> FALSE]

\* The k-th effect is a run that ended with a rate limit message
RateLimitedRun(k) == effects[k].kind = "run" /\ ResetOf(effects[k].line).found

\* The k-th effect is the sleep until the reset told of by the run before it
SleepsUntilReset(k) ==
    LET reset == ResetOf(effects[k - 1].line)
    IN /\ effects[k].kind = "sleep"
       /\ effects[k].secs = CalculateSleepSeconds(reset.hour, reset.ampm, reset.tz,
                                                  ClockReading(effects[k].at))

\* C34: whenever a run of claude ends with an error result that carries a
\* rate limit reset message, what the loop does next, before any other run,
\* is to sleep calculate_sleep_seconds seconds until the reset: after the
\* first run of a pass and after a run of the retry loop alike, also when
\* the message is an API server error too.
C34_Original ==
    \A k \in 1..(Len(effects) - 1) :
        RateLimitedRun(k) => SleepsUntilReset(k + 1)

\* The same for the first run of a pass only
C34_FirstRuns ==
    \A k \in 1..Len(effects) :
        RateLimitedRun(k) /\ ~effects[k].retry =>
            /\ k < Len(effects)
            /\ SleepsUntilReset(k + 1)

\* json.loads of a line of the log file, as far as parse_ralph_log reads it
LogRecord(t) ==
    IF \E k \in 1..Len(t) : t[k] = InitMember
    THEN [type |-> "system", subtype |-> "init",
          session_id |-> IF \E k \in 1..Len(t) : t[k] = SessionIdMember
                         THEN "abc" ELSE "",
          cwd |-> IF \E k \in 1..Len(t) : t[k] = CwdMember THEN <<"/", "c">>
                  ELSE <<>>]
    ELSE IF \E k \in 1..Len(t) : t[k] = Marker
    THEN [type |-> "result", subtype |-> "success",
          is_error |-> LoadLastLine(t).is_error,
          result |-> LoadLastLine(t).result]
    ELSE [type |-> "other"]

\* What the loop of parse_ralph_log makes of a line of the file: a header
\* when iter_pattern matches, raw text when it does not start with "{",
\* else what json.loads gives
AsLogLine(t) ==
    IF /\ Len(t) >= 6
       /\ t[1] = "=== Iteration "
       /\ t[2] \in Digits12
       /\ t[3] = "/"
       /\ t[4] \in Digits12
       /\ t[5] = " === "
    THEN [kind |-> "header", number |-> IntOf(t[2]), total |-> IntOf(t[4]),
          timestamp |-> t[6]]
    ELSE IF t = <<>> \/ t[1] # "{" THEN [kind |-> "raw", text |-> t]
    ELSE IF LoadLastLine(t).kind = "error" THEN [kind |-> "badjson"]
    ELSE [kind |-> "json", data |-> LogRecord(t)]

\* parse_ralph_log on the log file that the loop has written
IterationsOfLog ==
    ParseRalphLog(LogEntry(None),
                  [k \in 1..Len(ralph_log.lines) |-> AsLogLine(ralph_log.lines[k])]
                 ).iterations

\* The passes in which claude was started
PassesRun == {effects[k].pass : k \in {j \in 1..Len(effects) : effects[j].kind = "run"}}

\* C35: parse_ralph_log on a log written by the loop yields one Iteration
\* for each pass in which claude was started, retries included: as many
\* Iterations as such passes, with strictly increasing numbers.
C35_Original ==
    ralph_log.given /\ pc \in {"for", "finished"} =>
        /\ Len(IterationsOfLog) = Cardinality(PassesRun)
        /\ \A k \in 1..(Len(IterationsOfLog) - 1) :
              IterationsOfLog[k].number < IterationsOfLog[k + 1].number

\* The same for logs of runs in which the retry loop was never entered
C35_WithoutRetries ==
    /\ ralph_log.given
    /\ pc \in {"for", "finished"}
    /\ \A k \in 1..Len(effects) : effects[k].kind = "run" => ~effects[k].retry
    => /\ Len(IterationsOfLog) = Cardinality(PassesRun)
       /\ \A k \in 1..Len(IterationsOfLog) :
             IterationsOfLog[k].number \in PassesRun
       /\ \A k \in 1..(Len(IterationsOfLog) - 1) :
             IterationsOfLog[k].number < IterationsOfLog[k + 1].number

====
